---- MODULE Spec2Model ----
(***************************************************************************)
(* localsend-rs: the receive engine of one node (the prepare-upload,       *)
(* upload and cancel endpoints over the shared ServerState), the UI        *)
(* channel it talks to, and the peers that call it.                        *)
(*                                                                         *)
(* A handler's critical section (from taking the Mutex<ServerState> to     *)
(* releasing it, with no suspension in between) is one step; a handler     *)
(* that suspends while it holds the lock (prepare_upload, waiting for the  *)
(* UI) holds it across steps, in the variable lock.                        *)
(***************************************************************************)
EXTENDS Integers, Sequences, FiniteSets, TLC

\* ------------------------------------------------------------------ bounds

\* Number of prepare-upload and upload requests the node serves.
MaxRequests == 3

\* Largest size of a file, of a request body and of a chunk a reader yields.
MaxSize == 2

\* ------------------------------------------------------------- value sets

Requests == 1..MaxRequests

\* File ids a sender may offer.
Files == {"F", "G"}

\* Peer addresses.
IPs == {"10.0.0.2", "10.0.0.3"}

\* Option<T>
None == <<>>
Some(x) == <<x>>
IsSome(o) == o # <<>>
Unwrap(o) == o[1]

\* ------------------------------------------------------------------ state

VARIABLES
    quick_save,       \* settings.quick_save
    lock,             \* the Mutex<ServerState>: None, or Some(r), held by handler r
    receive_session,  \* ServerState.receive_session : Option<ReceiveSession>
    send_session,     \* ServerState.send_session : Option<SendSession>
    uuid,             \* next value of Uuid::new_v4() (every value is new)
    req,              \* the requests being served: where each handler stands
    cleanup_tasks,    \* cleanup tasks spawned by Guard::drop that have not run
    server_chan,      \* server_tx -> server_rx (capacity 1)
    client_chan,      \* client_tx -> client_rx (capacity 1)
    ui,               \* the UI's ends of the two channels
    progress_chan,    \* progress_tx -> progress_rx of the session's FilesSelected
    disk,             \* names of the files in the destination directory
    response,         \* the request the latest step decided on, and the decision
    accepted,         \* history: tokens of the uploads that passed validation
    twice,            \* history: tokens that passed validation more than once
    succeeded,        \* history: uploads answered 200
    cancelled,        \* history: sessions whose sender has called cancel
    send,             \* the run loop and the SendSession::upload call it makes
    worker,           \* the task SendSession::upload spawns to upload the files
    sent,             \* the latest HTTP request this process sent, if any
    emitted,          \* UploadProgress events sent for the file being uploaded
    scanner,          \* MulticastDeviceScanner::scan: its locals and the socket
    routed,           \* the latest ApiRoute::target computed, with its inputs
    wire              \* the latest DTO put on the wire: value, JSON, value read

vars == <<quick_save, lock, receive_session, send_session, uuid, req,
          cleanup_tasks, server_chan, client_chan, ui, progress_chan, disk,
          response, accepted, twice, succeeded, cancelled,
          send, worker, sent, emitted, scanner, routed, wire>>

\* ---------------------------------------------------------- error taxonomy

\* impl From<&ReceiveError> / From<&SendError> for StatusCode; a handler that
\* returns Ok answers 200.
StatusCode(e) ==
    CASE e = "Ok"                 -> 200
      [] e = "Cancelled"          -> 200
      [] e = "EmptyFiles"         -> 400
      [] e = "InvalidIp"          -> 403
      [] e = "InvalidParameters"  -> 400
      [] e = "InvalidRecipient"   -> 409
      [] e = "InvalidServerState" -> 500
      [] e = "InvalidSessionId"   -> 403
      [] e = "InvalidToken"       -> 403
      [] e = "NothingSelected"    -> 204
      [] e = "SaveFileFailed"     -> 500
      [] e = "SessionBlocked"     -> 409
      [] e = "SessionDeclined"    -> 403
      [] e = "SessionNotExists"   -> 409
      [] e = "NoPermission"       -> 403
      [] OTHER                    -> 500

\* ------------------------------------------------------------- requests

\* A request not yet made (kind "none"); ClosedReq is one whose handler has ended.
BlankReq ==
    [kind |-> "none", pc |-> "idle",
     v2 |-> FALSE,          \* prepare: the v2 route was called
     files |-> {},          \* prepare: keys of dto.files
     file_id |-> "",        \* upload: the file being saved
     token |-> 0,           \* upload: the token that was consumed
     created |-> FALSE,     \* upload: save_file has created the file
     save_result |-> "",    \* upload: result of save_file
     position |-> 0]        \* upload: save_file's count of the bytes read

ClosedReq == [BlankReq EXCEPT !.kind = "closed"]

\* Requests arrive in index order (they are interchangeable).
CanArrive(r) ==
    /\ req[r].kind = "none"
    /\ \A q \in Requests : q < r => req[q].kind # "none"

\* A handler's decision on a request: the request as it was made (ip is kept
\* for uploads, whose handler compares it), the stage of the handler that decided
\* ("return", or for an upload "validate", "accept" when it passed validation
\* and is not answered yet, "final"), the result and the response body.
\* save_result is what save_file returned, for an upload decided after it.
Decision(kind, stage, ip, v2, q, result, resp, save_result) ==
    [kind |-> kind, stage |-> stage, ip |-> ip, v2 |-> v2,
     files |-> q.files, file_id |-> q.file_id, token |-> q.token,
     session_id |-> q.session_id, result |-> result, resp |-> resp,
     save_result |-> save_result]

Response(kind, stage, ip, v2, q, result, resp) ==
    Some(Decision(kind, stage, ip, v2, q, result, resp, ""))

NoQuery == [files |-> {}, file_id |-> None, token |-> None, session_id |-> None]

Locked(l) == l # None

history == <<accepted, twice, succeeded, cancelled>>
channels == <<server_chan, client_chan, ui, progress_chan>>
sending == <<send, worker, sent, emitted>>
discovery == <<scanner, routed, wire>>

\* ------------------------------------------------- receive engine: prepare

\* Position of a file id among the uuids a session draws.
FileNo(f) == IF f = "F" THEN 1 ELSE 2

\* Uuid::new_v4() for the token of file f in the session with that id.
TokenOf(id, f) == id + FileNo(f)

\* A gate that looks at the lock only.
GateLockOnly(l, rs) == Locked(l)

\* prepare_upload, the concurrency gate: try_lock failed, or a session exists.
GateBlocked(l, rs) == Locked(l) \/ IsSome(rs)

\* prepare_upload: the ReceiveSession installed at the gate (status Waiting).
NewSession(id, ip) ==
    [session_id |-> id, status |-> "Waiting", sender_ip |-> ip,
     files |-> <<>>, progress_tx |-> FALSE]

\* prepare_upload: one ReceivingFile per selected file, each with a new token.
IssueFiles(selection, id) ==
    [f \in selection |-> [status |-> "Queue", token |-> Some(TokenOf(id, f))]]

\* A decline that leaves the session where it is.
OnDeclinedKeep(rs) == [session |-> rs, result |-> "SessionDeclined", files |-> <<>>]

\* prepare_upload, lines 156-159: the selection is None (the UI declined).
OnDeclined(rs) == [session |-> None, result |-> "SessionDeclined", files |-> <<>>]

\* A prepare_upload that keeps the session when nothing was selected.
PrepareDecideKeepsEmpty(rs, progress, selection) ==
    IF ~IsSome(rs)
    THEN [session |-> rs, result |-> "InvalidServerState", files |-> <<>>]
    ELSE IF ~IsSome(selection)
    THEN OnDeclined(rs)
    ELSE IF Unwrap(selection) = {}
    THEN [session |-> rs, result |-> "NothingSelected", files |-> <<>>]
    ELSE LET files == IssueFiles(Unwrap(selection), Unwrap(rs).session_id)
         IN  [session |-> Some([Unwrap(rs) EXCEPT !.progress_tx = progress,
                                                  !.status = "Sending",
                                                  !.files = files]),
              result |-> "Ok",
              files |-> [f \in DOMAIN files |-> Unwrap(files[f].token)]]

\* prepare_upload, lines 148-191, once the selection is known. selection is an
\* Option of a set of file ids; progress tells whether a progress_tx came with it.
\* Gives the new receive_session, the result and the token map of the response.
PrepareDecide(rs, progress, selection) ==
    IF ~IsSome(rs)
    THEN [session |-> rs, result |-> "InvalidServerState", files |-> <<>>]
    ELSE IF ~IsSome(selection)
    THEN OnDeclined(rs)
    ELSE IF Unwrap(selection) = {}
    THEN [session |-> None, result |-> "NothingSelected", files |-> <<>>]
    ELSE LET files == IssueFiles(Unwrap(selection), Unwrap(rs).session_id)
         IN  [session |-> Some([Unwrap(rs) EXCEPT !.progress_tx = progress,
                                                  !.status = "Sending",
                                                  !.files = files]),
              result |-> "Ok",
              files |-> [f \in DOMAIN files |-> Unwrap(files[f].token)]]

\* A response that carries the session id on both routes.
PrepareResponseEnvelope(v2, d) ==
    IF d.result = "Ok"
    THEN [session_id |-> Some(Unwrap(d.session).session_id), files |-> d.files]
    ELSE [session_id |-> None, files |-> <<>>]

\* What prepare_upload_v1 / prepare_upload_v2 answer: v1 the bare token map, v2
\* the session id with it; an error has no body.
PrepareResponse(v2, d) ==
    IF d.result = "Ok"
    THEN [session_id |-> IF v2 THEN Some(Unwrap(d.session).session_id) ELSE None,
          files |-> d.files]
    ELSE [session_id |-> None, files |-> <<>>]

NoBody == [session_id |-> None, files |-> <<>>]

\* A cleanup task that removes nothing.
GuardCleanupNothing(rs) == rs

\* A cleanup task that removes whatever session it finds.
GuardCleanupAny(rs) == None

\* Guard::drop's task body: remove the session if it is still Waiting.
GuardCleanup(rs) ==
    IF IsSome(rs) /\ Unwrap(rs).status = "Waiting" THEN None ELSE rs

\* A handler that gives the lock back before it asks the UI.
LockFreeWhileAsking(p) == None

\* prepare_upload, lines 78 and 133-139: the guard _state of try_lock lives
\* across the two awaits, so handler p keeps the lock while it asks the UI.
LockWhileAsking(p) == Some(p)

\* A prepare-upload request arrives: lines 78-137 run without suspension.
\* contended: another handler is inside its critical section, so try_lock fails.
\* The request body (files) is looked at only behind the gate.
PrepareGate(p) ==
    /\ CanArrive(p)
    /\ \E v2 \in BOOLEAN, contended \in BOOLEAN :
        IF GateBlocked(IF contended THEN Some(0) ELSE lock, receive_session)
        THEN /\ req' = [req EXCEPT ![p] = ClosedReq]
             /\ response' = Response("prepare", "return", "", v2, NoQuery,
                                     "SessionBlocked", NoBody)
             /\ UNCHANGED <<lock, receive_session, uuid, cleanup_tasks, history>>
        ELSE \E ip \in IPs, files \in SUBSET Files :
          LET q == [NoQuery EXCEPT !.files = files]
          IN
          IF files = {}
          THEN /\ req' = [req EXCEPT ![p] = ClosedReq]
               /\ response' = Response("prepare", "return", "", v2, q,
                                       "EmptyFiles", NoBody)
               /\ UNCHANGED <<lock, receive_session, uuid, cleanup_tasks, history>>
          ELSE \* a session is installed: the history starts over for its tokens
               /\ uuid' = uuid + 1 + Cardinality(Files)
               /\ accepted' = {} /\ succeeded' = {} /\ cancelled' = {}
               /\ UNCHANGED twice
               /\ IF quick_save
                  THEN LET d == PrepareDecide(Some(NewSession(uuid, ip)), FALSE,
                                              Some(files))
                       IN  /\ receive_session' = d.session
                           /\ req' = [req EXCEPT ![p] = ClosedReq]
                           /\ response' = Response("prepare", "return", "", v2, q,
                                                   d.result, PrepareResponse(v2, d))
                           /\ cleanup_tasks' = cleanup_tasks + 1
                           /\ UNCHANGED lock
                  ELSE /\ receive_session' = Some(NewSession(uuid, ip))
                       /\ lock' = LockWhileAsking(p)
                       /\ req' = [req EXCEPT ![p] =
                              [BlankReq EXCEPT !.kind = "prepare", !.pc = "send",
                                               !.v2 = v2, !.files = files]]
                       /\ response' = None
                       /\ UNCHANGED cleanup_tasks
    /\ UNCHANGED <<quick_save, send_session, channels, disk>>
    /\ UNCHANGED <<sending, discovery>>

\* prepare_upload returns (or unwinds) after the guard was armed: the handler's
\* locals are dropped, which spawns the cleanup task and releases the lock.
PrepareLeave(p) ==
    /\ req' = [req EXCEPT ![p] = ClosedReq]
    /\ cleanup_tasks' = cleanup_tasks + 1
    /\ lock' = None

\* tx.send(SelectedFiles(files)).await.unwrap(): panics when the UI dropped its
\* receiver, waits while the channel is full.
PrepareSend(p) ==
    /\ req[p].kind = "prepare" /\ req[p].pc = "send"
    /\ IF ~ui.rx_open
       THEN /\ PrepareLeave(p)
            /\ UNCHANGED server_chan
       ELSE /\ Len(server_chan) < 1
            /\ server_chan' = Append(server_chan, req[p].files)
            /\ req' = [req EXCEPT ![p].pc = "recv"]
            /\ UNCHANGED <<cleanup_tasks, lock>>
    /\ response' = None
    /\ UNCHANGED <<quick_save, receive_session, send_session, uuid, client_chan,
                   ui, progress_chan, disk, history>>
    /\ UNCHANGED <<sending, discovery>>

\* client_rx.recv().await and the rest of prepare_upload (lines 139-191).
PrepareRecv(p) ==
    /\ req[p].kind = "prepare" /\ req[p].pc = "recv"
    /\ LET q == [NoQuery EXCEPT !.files = req[p].files]
       IN
       IF Len(client_chan) > 0
       THEN LET msg == Head(client_chan)
                sel == IF msg.type = "FilesSelected" THEN Some(msg.files) ELSE None
                d == PrepareDecide(receive_session, msg.type = "FilesSelected", sel)
            IN  /\ client_chan' = Tail(client_chan)
                /\ receive_session' = d.session
                /\ response' = Response("prepare", "return", "", req[p].v2,
                                        q, d.result, PrepareResponse(req[p].v2, d))
       ELSE /\ ~ui.tx_open
            /\ response' = Response("prepare", "return", "", req[p].v2,
                                    q, "NothingSelected", NoBody)
            /\ UNCHANGED <<client_chan, receive_session>>
    /\ PrepareLeave(p)
    /\ UNCHANGED <<quick_save, send_session, uuid, server_chan, ui, progress_chan,
                   disk, history>>
    /\ UNCHANGED <<sending, discovery>>

\* The peer disconnects while the handler is suspended: the request future is
\* dropped where it stands.
PrepareDrop(p) ==
    /\ req[p].kind = "prepare" /\ req[p].pc \in {"send", "recv"}
    /\ PrepareLeave(p)
    /\ response' = None
    /\ UNCHANGED <<quick_save, receive_session, send_session, uuid, channels,
                   disk, history>>
    /\ UNCHANGED <<sending, discovery>>

\* A cleanup task spawned by Guard::drop runs: blocking_lock, then the check.
Cleanup ==
    /\ cleanup_tasks > 0
    /\ ~Locked(lock)
    /\ receive_session' = GuardCleanup(receive_session)
    /\ cleanup_tasks' = cleanup_tasks - 1
    /\ response' = None
    /\ UNCHANGED <<quick_save, lock, send_session, uuid, req, channels, disk,
                   history>>
    /\ UNCHANGED <<sending, discovery>>

\* ---------------------------------------------------------------- the UI

\* The UI receives the selection request (server_rx.recv()).
UIRecv ==
    /\ ui.rx_open
    /\ ~IsSome(ui.pending)
    /\ Len(server_chan) > 0
    /\ ui' = [ui EXCEPT !.pending = Some(Head(server_chan))]
    /\ server_chan' = Tail(server_chan)
    /\ response' = None
    /\ UNCHANGED <<quick_save, lock, receive_session, send_session, uuid, req,
                   cleanup_tasks, client_chan, progress_chan, disk, history>>
    /\ UNCHANGED <<sending, discovery>>

\* The UI answers: the files it accepts (select_files), with the sender of a
\* new progress channel, or Declined.
UIReply ==
    /\ ui.tx_open
    /\ IsSome(ui.pending)
    /\ Len(client_chan) < 1
    /\ \E msg \in {[type |-> "Declined", files |-> {}]} \cup
                  {[type |-> "FilesSelected", files |-> s] :
                      s \in SUBSET Unwrap(ui.pending)} :
          /\ client_chan' = Append(client_chan, msg)
          /\ progress_chan' = IF msg.type = "FilesSelected" THEN <<>>
                               ELSE progress_chan
    /\ ui' = [ui EXCEPT !.pending = None]
    /\ response' = None
    /\ UNCHANGED <<quick_save, lock, receive_session, send_session, uuid, req,
                   cleanup_tasks, server_chan, disk, history>>
    /\ UNCHANGED <<sending, discovery>>

\* The UI goes away: both of its channel ends are dropped. Messages queued for
\* the dropped receiver are lost. (With quick_save the UI task waits forever.)
UIClose ==
    /\ ~quick_save
    /\ ui.rx_open
    /\ ui' = [rx_open |-> FALSE, tx_open |-> FALSE, pending |-> None]
    /\ server_chan' = <<>>
    /\ response' = None
    /\ UNCHANGED <<quick_save, lock, receive_session, send_session, uuid, req,
                   cleanup_tasks, client_chan, progress_chan, disk, history>>
    /\ UNCHANGED <<sending, discovery>>

\* -------------------------------------------------- receive engine: upload

\* A check that lets every peer address through.
IpAny(s, ip) == TRUE

\* upload, line 227: the peer address is the session's sender's.
IpMatches(s, ip) == ip = s.sender_ip

\* A check that looks at the sessionId parameter on no route.
SessionIdUnchecked(s, v2, q) == "Ok"

\* upload, lines 248-255: the sessionId parameter, looked at on the v2 route only.
SessionIdCheck(s, v2, q) ==
    IF ~v2 THEN "Ok"
    ELSE IF ~IsSome(q.session_id) THEN "InvalidParameters"
    ELSE IF Unwrap(q.session_id) # s.session_id THEN "InvalidSessionId"
    ELSE "Ok"

\* A validation that looks at the session status before the peer address.
UploadValidateStatusFirst(rs, ip, v2, q) ==
    IF ~IsSome(rs) THEN "SessionNotExists"
    ELSE LET s == Unwrap(rs) IN
    IF s.status # "Sending" THEN "InvalidRecipient"
    ELSE IF ~IpMatches(s, ip) THEN "InvalidIp"
    ELSE IF ~IsSome(q.file_id) \/ ~IsSome(q.token) THEN "InvalidParameters"
    ELSE IF SessionIdCheck(s, v2, q) # "Ok" THEN SessionIdCheck(s, v2, q)
    ELSE IF Unwrap(q.file_id) \notin DOMAIN s.files THEN "InvalidToken"
    ELSE IF ~IsSome(s.files[Unwrap(q.file_id)].token) THEN "InvalidToken"
    ELSE IF q.token # s.files[Unwrap(q.file_id)].token THEN "InvalidToken"
    ELSE "Ok"

\* upload, lines 222-273: the checks in the order the handler makes them, for
\* the peer address ip, the route (v2) and the query parameters q.
UploadValidate(rs, ip, v2, q) ==
    IF ~IsSome(rs) THEN "SessionNotExists"
    ELSE LET s == Unwrap(rs) IN
    IF ~IpMatches(s, ip) THEN "InvalidIp"
    ELSE IF s.status # "Sending" THEN "InvalidRecipient"
    ELSE IF ~IsSome(q.file_id) \/ ~IsSome(q.token) THEN "InvalidParameters"
    ELSE IF SessionIdCheck(s, v2, q) # "Ok" THEN SessionIdCheck(s, v2, q)
    ELSE IF Unwrap(q.file_id) \notin DOMAIN s.files THEN "InvalidToken"
    ELSE IF ~IsSome(s.files[Unwrap(q.file_id)].token) THEN "InvalidToken"
    ELSE IF q.token # s.files[Unwrap(q.file_id)].token THEN "InvalidToken"
    ELSE "Ok"

\* An acceptance that leaves the token in place.
ConsumeTokenKeep(file) == [file EXCEPT !.status = "Sending"]

\* upload, lines 275-276: the file starts Sending and its token is removed.
ConsumeToken(file) == [file EXCEPT !.status = "Sending", !.token = None]

\* A test that takes a file being saved for a finished one.
TerminalOrSending(status) == status # "Queue"

\* FileStatus::Finished or FileStatus::Failed
Terminal(status) == status \in {"Finished", "Failed"}

\* A finalization that ends the session with the first file done.
UploadFinalizeFirstDone(rs, f, save_result) ==
    IF ~IsSome(rs) THEN [session |-> rs, result |-> "Cancelled"]
    ELSE IF f \notin DOMAIN Unwrap(rs).files
    THEN [session |-> rs, result |-> "InvalidToken"]
    ELSE [session |-> None,
          result |-> IF save_result = "Ok" THEN "Ok" ELSE "SaveFileFailed"]

\* A finalization that gives a failed file its token back.
UploadFinalizeReissue(rs, f, save_result) ==
    IF ~IsSome(rs) THEN [session |-> rs, result |-> "Cancelled"]
    ELSE IF f \notin DOMAIN Unwrap(rs).files
    THEN [session |-> rs, result |-> "InvalidToken"]
    ELSE LET s == Unwrap(rs)
             files == [s.files EXCEPT ![f] =
                          IF save_result = "Ok"
                          THEN [@ EXCEPT !.status = "Finished"]
                          ELSE [status |-> "Failed",
                                token |-> Some(TokenOf(s.session_id, f))]]
             finish == \A g \in DOMAIN files : Terminal(files[g].status)
         IN  [session |-> IF finish THEN None ELSE Some([s EXCEPT !.files = files]),
              result |-> IF save_result = "Ok" THEN "Ok" ELSE "SaveFileFailed"]

\* upload, lines 343-374, for file f and the result of save_file.
UploadFinalize(rs, f, save_result) ==
    IF ~IsSome(rs) THEN [session |-> rs, result |-> "Cancelled"]
    ELSE IF f \notin DOMAIN Unwrap(rs).files
    THEN [session |-> rs, result |-> "InvalidToken"]
    ELSE LET s == Unwrap(rs)
             files == [s.files EXCEPT ![f].status =
                          IF save_result = "Ok" THEN "Finished" ELSE "Failed"]
             finish == \A g \in DOMAIN files : Terminal(files[g].status)
         IN  [session |-> IF finish THEN None ELSE Some([s EXCEPT !.files = files]),
              result |-> IF save_result = "Ok" THEN "Ok" ELSE "SaveFileFailed"]

\* What a client can put in a query: the ids of the session installed last
\* (its own id and the tokens of its files), and 0, an id never handed out.
LastId == uuid - 1 - Cardinality(Files)
KnownTokens == IF uuid > 1 THEN {TokenOf(LastId, f) : f \in Files} ELSE {0}
KnownSessionIds == IF uuid > 1 THEN {0, LastId} ELSE {0}
Queries ==
    [files : {{}},
     file_id : {None} \cup {Some(f) : f \in Files},
     token : {None} \cup {Some(t) : t \in KnownTokens},
     session_id : {None} \cup {Some(i) : i \in KnownSessionIds}]

\* The queries of a sender that got a prepare response: the file, its token and
\* the session id, as SendSession::upload_file puts them in the URL.
SenderQueries ==
    IF uuid > 1
    THEN {[files |-> {}, file_id |-> Some(f), token |-> Some(TokenOf(LastId, f)),
           session_id |-> Some(LastId)] : f \in Files}
    ELSE {}

\* A handler that kept its lock guard into save_file.
LockKeptWhileSaving(u) == Some(u)

\* upload, line 289: drop(_state) before save_file runs, so the lock is free
\* while handler u creates and writes its file.
LockWhileSaving(u) == None

\* An upload request arrives with a query out of Q: lines 221-289, from taking
\* the lock to releasing it.
UploadCheck(u, Q) ==
    /\ CanArrive(u)
    /\ ~Locked(lock)
    /\ \E ip \in IPs, v2 \in BOOLEAN, q \in Q :
        LET e == UploadValidate(receive_session, ip, v2, q)
        IN  IF e = "Ok"
            THEN LET s == Unwrap(receive_session)
                     f == Unwrap(q.file_id)
                     t == Unwrap(q.token)
                 IN  /\ receive_session' =
                            Some([s EXCEPT !.files[f] = ConsumeToken(s.files[f])])
                     /\ req' = [req EXCEPT ![u] =
                            [BlankReq EXCEPT !.kind = "upload", !.pc = "create",
                                             !.file_id = f, !.token = t]]
                     /\ response' = Response("upload", "accept", ip, v2, q,
                                             "Ok", NoBody)
                     /\ accepted' = accepted \cup {t}
                     /\ twice' = IF t \in accepted THEN twice \cup {t} ELSE twice
                     /\ lock' = LockWhileSaving(u)
            ELSE /\ req' = [req EXCEPT ![u] = ClosedReq]
                 /\ response' = Response("upload", "validate", ip, v2, q, e, NoBody)
                 /\ UNCHANGED <<receive_session, accepted, twice, lock>>
    /\ UNCHANGED <<quick_save, send_session, uuid, cleanup_tasks, channels,
                   disk, succeeded, cancelled>>
    /\ UNCHANGED <<sending, discovery>>

\* save_file, lines 298-306: create the parent directories and the file.
UploadCreate(u) ==
    /\ req[u].kind = "upload" /\ req[u].pc = "create"
    /\ \E ok \in BOOLEAN :
          IF ok
          THEN /\ disk' = disk \cup {req[u].file_id}
               /\ req' = [req EXCEPT ![u].pc = "stream", ![u].created = TRUE]
          ELSE /\ req' = [req EXCEPT ![u].pc = "saved", ![u].save_result = "Io"]
               /\ UNCHANGED disk
    /\ response' = None
    /\ UNCHANGED <<quick_save, lock, receive_session, send_session, uuid,
                   cleanup_tasks, channels, history>>
    /\ UNCHANGED <<sending, discovery>>

\* save_file, lines 308-338: the read loop and the flush, by how they end:
\*   "complete"     the body was read to its end and flushed
\*   "read_error"   reader.read fails: the file is removed, Err(Cancelled)
\*   "write_error"  file_buf.write(..).await.unwrap() panics: the handler ends
\*   "flush_error"  file_buf.flush().await? fails: Err(Io)
UploadStream(u) ==
    /\ req[u].kind = "upload" /\ req[u].pc = "stream"
    /\ \E outcome \in {"complete", "read_error", "write_error", "flush_error"} :
          CASE outcome = "complete" ->
                  /\ req' = [req EXCEPT ![u].pc = "saved", ![u].save_result = "Ok",
                                        ![u].position = 0]
                  /\ UNCHANGED disk
            [] outcome = "read_error" ->
                  /\ disk' = disk \ {req[u].file_id}
                  /\ req' = [req EXCEPT ![u].pc = "saved",
                                        ![u].save_result = "Cancelled",
                                        ![u].position = 0]
            [] outcome = "write_error" ->
                  /\ req' = [req EXCEPT ![u] = ClosedReq]
                  /\ UNCHANGED disk
            [] outcome = "flush_error" ->
                  /\ req' = [req EXCEPT ![u].pc = "saved", ![u].save_result = "Io",
                                        ![u].position = 0]
                  /\ UNCHANGED disk
    /\ response' = None
    /\ UNCHANGED <<quick_save, lock, receive_session, send_session, uuid,
                   cleanup_tasks, channels, history>>
    /\ UNCHANGED <<sending, discovery>>

\* Events the progress channel holds, at most (main.rs gives it room for 100).
MaxProgress == 2

\* file.size of the FileDto that the prepare request gave for file f.
DeclaredSize(f) == IF f = "F" THEN 1 ELSE MaxSize

\* A count that is set to the length of the chunk.
ReceivedChunk(position, len) == len

\* save_file, line 315: position += len
Received(position, len) == position + len

\* save_file, lines 319-323: the UploadProgress of a file at a position.
ReceivedProgress(file_id, position) ==
    [file_id |-> file_id, position |-> position,
     finish |-> position >= DeclaredSize(file_id)]

\* save_file, lines 310-317: reader.read gives a chunk of len bytes, which is
\* counted and written; with a progress_tx the event is sent next. (The body
\* is as long as the peer makes it, whatever size it declared.)
UploadRead(u) ==
    /\ req[u].kind = "upload" /\ req[u].pc = "stream"
    /\ \E len \in 1..MaxSize :
          /\ req[u].position + len <= MaxSize
          /\ req' = [req EXCEPT
                       ![u].position = Received(@, len),
                       ![u].pc = IF /\ IsSome(receive_session)
                                    /\ Unwrap(receive_session).progress_tx
                                 THEN "send" ELSE "stream"]
    /\ response' = None
    /\ UNCHANGED <<quick_save, lock, receive_session, send_session, uuid,
                   cleanup_tasks, channels, disk, history>>
    /\ UNCHANGED <<sending, discovery>>

\* save_file, lines 318-325: progress_tx.send(..).await.ok() returns once the
\* channel has room for the event.
UploadSend(u) ==
    /\ req[u].kind = "upload" /\ req[u].pc = "send"
    /\ Len(progress_chan) < MaxProgress
    /\ progress_chan' = Append(progress_chan,
                               ReceivedProgress(req[u].file_id, req[u].position))
    /\ req' = [req EXCEPT ![u].pc = "stream"]
    /\ response' = None
    /\ UNCHANGED <<quick_save, lock, receive_session, send_session, uuid,
                   cleanup_tasks, server_chan, client_chan, ui, disk, history>>
    /\ UNCHANGED <<sending, discovery>>

\* main, lines 208-210: the UI takes an event (progress_rx.recv()).
ProgressRecv ==
    /\ progress_chan # <<>>
    /\ progress_chan' = Tail(progress_chan)
    /\ response' = None
    /\ UNCHANGED <<quick_save, lock, receive_session, send_session, uuid, req,
                   cleanup_tasks, server_chan, client_chan, ui, disk, history>>
    /\ UNCHANGED <<sending, discovery>>

\* upload, lines 343-374: take the lock again, record the file's final status,
\* drop the session when every file is Finished or Failed.
UploadFinal(u) ==
    /\ req[u].kind = "upload" /\ req[u].pc = "saved"
    /\ ~Locked(lock)
    /\ LET d == UploadFinalize(receive_session, req[u].file_id, req[u].save_result)
           q == [NoQuery EXCEPT !.file_id = Some(req[u].file_id),
                                !.token = Some(req[u].token)]
       IN  /\ receive_session' = d.session
           /\ response' = Some(Decision("upload", "final", "", FALSE, q,
                                        d.result, NoBody, req[u].save_result))
           /\ succeeded' = IF d.result = "Ok"
                           THEN succeeded \cup
                                   {[file_id |-> req[u].file_id,
                                     token |-> req[u].token,
                                     ip |-> Unwrap(receive_session).sender_ip,
                                     session_id |->
                                         Unwrap(receive_session).session_id]}
                           ELSE succeeded
    /\ req' = [req EXCEPT ![u] = ClosedReq]
    /\ UNCHANGED <<quick_save, lock, send_session, uuid, cleanup_tasks, channels,
                   disk, accepted, twice, cancelled>>
    /\ UNCHANGED <<sending, discovery>>

\* ------------------------------------------------------------ route resolver

\* ApiRoute::_v1
RouteV1(op) ==
    CASE op = "PrepareUpload" -> "send-request"
      [] op = "Upload"        -> "send"
      [] op = "Cancel"        -> "cancel"

\* A resolver with the v1 names on the v2 routes.
RouteV2AsV1(op) == RouteV1(op)

\* ApiRoute::_v2
RouteV2(op) ==
    CASE op = "PrepareUpload" -> "prepare-upload"
      [] op = "Upload"        -> "upload"
      [] OTHER                -> RouteV1(op)

\* ApiRoute::route
Route(op, version) ==
    "/api/localsend" \o (IF version = "1.0" THEN "/v1/" \o RouteV1(op)
                                            ELSE "/v2/" \o RouteV2(op))

\* ------------------------------------------------------------- send engine

\* Number of sessions the run loop starts.
MaxSessions == 2

\* target.version of the peers a session is sent to.
Versions == {"1.0", "2.0"}

\* The SendingFiles main builds: F is a file on disk (add_file), G a text
\* (add_text, no path; with its preview when the text is shorter than 1024
\* bytes), in this order.
SendOrder == <<"F", "G">>
HasPath(f) == f = "F"

\* The session id and the tokens of the peer's response to session n (its uuids).
RemoteSessionId(n) == 100 + n
RemoteToken(n, f) == 200 + 10 * n + FileNo(f)

\* SendingFile::new
NewSendingFile == [status |-> "Queue", token |-> None]

\* SendSession::new, for the n-th session of the run loop.
NewSendSession(n) ==
    [id |-> n, files |-> [f \in Files |-> NewSendingFile],
     remote_session_id |-> None, cancel_token |-> FALSE]

\* SendSession::upload, lines 92-121: what the sender makes of the status and
\* the body of the prepare response.
SendUploadOutcome(status, resp) ==
    CASE status = 200 -> IF DOMAIN resp.files = {} THEN "NothingSelected"
                         ELSE "Installed"
      [] status = 204 -> "NothingSelected"
      [] status = 403 -> "Rejected"
      [] status = 409 -> "Busy"
      [] OTHER        -> "Unknown"

\* SendSession::upload, lines 112-118: remote_session_id after the response.
RemoteSessionIdOf(version, resp) ==
    IF version = "1.0" THEN None ELSE resp.session_id

\* An update that leaves the files the peer did not accept in the queue.
UpdateTokenLeavesQueue(files, token) ==
    [f \in DOMAIN files |->
        IF f \in DOMAIN token
        THEN [files[f] EXCEPT !.status = "Sending", !.token = Some(token[f])]
        ELSE files[f]]

\* SendingFiles::update_token
UpdateToken(files, token) ==
    [f \in DOMAIN files |->
        IF f \in DOMAIN token
        THEN [files[f] EXCEPT !.status = "Sending", !.token = Some(token[f])]
        ELSE [files[f] EXCEPT !.status = "Skipped"]]

\* A failed file that is put back in the queue.
ToFinishStatusRequeue(files, file_id, success) ==
    IF file_id \in DOMAIN files
    THEN [files EXCEPT ![file_id].status =
             IF success THEN "Finished" ELSE "Queue"]
    ELSE files

\* SendingFiles::to_finish_status
ToFinishStatus(files, file_id, success) ==
    IF file_id \in DOMAIN files
    THEN [files EXCEPT ![file_id].status =
             IF success THEN "Finished" ELSE "Failed"]
    ELSE files

\* The request SendSession::upload posts: the prepare-upload of its target.
PrepareUrl(version) ==
    [op |-> "PrepareUpload", version |-> version,
     path |-> Route("PrepareUpload", version),
     file_id |-> None, token |-> None, session_id |-> None]

\* An upload URL without v2_args.
UploadUrlNoSessionId(version, file_id, token, remote_session_id) ==
    [op |-> "Upload", version |-> version, path |-> Route("Upload", version),
     file_id |-> Some(file_id), token |-> token, session_id |-> None]

\* SendSession::upload_file, lines 221-232: the URL of an upload.
UploadUrl(version, file_id, token, remote_session_id) ==
    [op |-> "Upload", version |-> version, path |-> Route("Upload", version),
     file_id |-> Some(file_id), token |-> token,
     session_id |-> remote_session_id]

\* SendSession::cancel, lines 257-262: the URL of a cancel by the sender.
CancelUrl(version, remote_session_id) ==
    [op |-> "Cancel", version |-> version, path |-> Route("Cancel", version),
     file_id |-> None, token |-> None, session_id |-> remote_session_id]

\* The run loop and SendSession::upload: "off" in a process started to receive
\* (the loop is never reached), "idle" between two sessions, "prepare" waiting
\* for the prepare-upload response, "install" about to put the session in the
\* shared state, "join" waiting for the worker, "take" about to take the session
\* back, "exited" after process::exit. preview: the text G has its preview.
\* ctrlc: the task that waits for Ctrl-C has not ended.
SendOff ==
    [pc |-> "off", n |-> 0, version |-> "", size |-> 0, preview |-> TRUE,
     session |-> None, result |-> "", ctrlc |-> TRUE]

NoWorker == [pc |-> "none", todo |-> <<>>, file |-> "", uploaded |-> 0,
             ok |-> FALSE, files |-> <<>>, remote_session_id |-> None]

\* The files the worker has still to look at, the Skipped ones in front left out.
RECURSIVE SkipSkipped(_, _)
SkipSkipped(todo, files) ==
    IF todo = <<>> THEN todo
    ELSE IF files[Head(todo)].status = "Skipped"
    THEN SkipSkipped(Tail(todo), files)
    ELSE todo

\* AbortHandle::abort: a task that has not ended is cancelled where it waits.
\* A worker that has no file left reaches no await any more and completes.
Abort(w) ==
    IF w.pc \in {"none", "finished", "panicked"} THEN w
    ELSE IF w.pc = "next" /\ SkipSkipped(w.todo, w.files) = <<>>
    THEN [w EXCEPT !.pc = "finished", !.todo = <<>>]
    ELSE [NoWorker EXCEPT !.pc = "aborted"]

\* What the peer's cancel route can give the sender: a status, or no response.
CancelReplies == {"200", "403", "500", "error"}

\* SendSession::cancel: whether cancel_token.abort() is reached, and the result.
\* A request that got no response leaves through status_code? before the abort.
SessionCancel(from_sender, reply) ==
    IF ~from_sender THEN [aborts |-> TRUE, result |-> "Ok"]
    ELSE CASE reply = "200" -> [aborts |-> TRUE, result |-> "Ok"]
           [] reply = "403" -> [aborts |-> TRUE, result |-> "NoPermission"]
           [] reply = "error" -> [aborts |-> FALSE, result |-> "Request"]
           [] OTHER -> [aborts |-> TRUE, result |-> "Unknown"]

\* run: a SendSession for a target is created and upload posts prepare-upload.
\* size is the size of the file F when it was added.
SendStart ==
    /\ send.pc = "idle"
    /\ send.n < MaxSessions
    /\ \E version \in Versions, size \in 0..MaxSize, preview \in BOOLEAN :
          /\ send' = [send EXCEPT !.pc = "prepare", !.n = send.n + 1,
                                  !.version = version, !.size = size,
                                  !.preview = preview,
                                  !.session = Some(NewSendSession(send.n + 1)),
                                  !.result = ""]
          /\ sent' = Some(PrepareUrl(version))
    /\ emitted' = <<>>
    /\ UNCHANGED <<quick_save, lock, receive_session, send_session, uuid, req,
                   cleanup_tasks, channels, disk, response, history, worker,
                   discovery>>

\* SendSession::upload, lines 92-150: the peer's response arrives. With a 200
\* and tokens the worker is spawned; anything else ends the call.
SendPrepared ==
    /\ send.pc = "prepare"
    /\ \E status \in {200, 204, 403, 409, 500}, accepted_files \in SUBSET Files :
        LET self == Unwrap(send.session)
            resp == [session_id |-> IF send.version = "1.0" THEN None
                                    ELSE Some(RemoteSessionId(self.id)),
                     files |-> [f \in accepted_files |-> RemoteToken(self.id, f)]]
            outcome == SendUploadOutcome(status, resp)
            files == UpdateToken(self.files, resp.files)
            rsid == RemoteSessionIdOf(send.version, resp)
        IN  /\ status = 200 \/ accepted_files = {}
            /\ IF outcome = "Installed"
               THEN /\ send' = [send EXCEPT
                                   !.pc = "install",
                                   !.session = Some([self EXCEPT
                                       !.remote_session_id = rsid,
                                       !.files = files,
                                       !.cancel_token = TRUE])]
                    /\ worker' = [NoWorker EXCEPT !.pc = "next",
                                                  !.todo = SendOrder,
                                                  !.files = files,
                                                  !.remote_session_id = rsid]
               ELSE /\ send' = [send EXCEPT !.pc = "idle", !.session = None,
                                            !.size = 0, !.preview = TRUE,
                                            !.result = outcome]
                    /\ UNCHANGED worker
    /\ UNCHANGED <<quick_save, lock, receive_session, send_session, uuid, req,
                   cleanup_tasks, channels, disk, response, history, sent,
                   emitted, discovery>>

\* SendSession::upload, lines 152-153: state.send_session = Some(self).
SendInstall ==
    /\ send.pc = "install"
    /\ ~Locked(lock)
    /\ send_session' = send.session
    /\ send' = [send EXCEPT !.pc = "join", !.session = None]
    /\ UNCHANGED <<quick_save, lock, receive_session, uuid, req, cleanup_tasks,
                   channels, disk, response, history, worker, sent, emitted,
                   discovery>>

\* An upload that reports every end of the worker as success.
JoinResultAlwaysOk(w) == "Ok"

\* SendSession::upload, lines 162-170: what upload returns for the way the
\* worker ended.
JoinResult(w) ==
    CASE w.pc = "aborted" -> "Cancelled"
      [] w.pc = "panicked" -> "Aborted"
      [] OTHER -> "Ok"

\* SendSession::upload, line 157: join_handle.await returns.
SendJoin ==
    /\ send.pc = "join"
    /\ worker.pc \in {"finished", "aborted", "panicked"}
    /\ send' = [send EXCEPT !.pc = "take", !.result = JoinResult(worker)]
    /\ worker' = NoWorker
    /\ UNCHANGED <<quick_save, lock, receive_session, send_session, uuid, req,
                   cleanup_tasks, channels, disk, response, history, sent,
                   emitted, discovery>>

\* SendSession::upload, lines 158-170: state.send_session.take(), and return.
SendTake ==
    /\ send.pc = "take"
    /\ ~Locked(lock)
    /\ send_session' = None
    /\ send' = [send EXCEPT !.pc = "idle", !.size = 0, !.preview = TRUE]
    /\ UNCHANGED <<quick_save, lock, receive_session, uuid, req, cleanup_tasks,
                   channels, disk, response, history, worker, sent, emitted,
                   discovery>>

\* UploadProgress of upload_file, lines 193-199, after a chunk of len bytes.
ProgressAfter(file_id, uploaded, len, file_size) ==
    LET pos == IF uploaded + len < file_size THEN uploaded + len ELSE file_size
    IN  [file_id |-> file_id, position |-> pos, finish |-> pos >= file_size]

\* The size in the FileDto of a file to send.
FileSize(f) == IF HasPath(f) THEN send.size ELSE 1

\* The worker, lines 132-139, and upload_file, lines 179-238: the next file
\* that is not Skipped is opened (a file with a path) or its preview is taken
\* (an inline text), and the upload request is sent. A text without preview
\* ends the task in unimplemented!().
WorkerNext ==
    /\ worker.pc = "next"
    /\ LET todo == SkipSkipped(worker.todo, worker.files)
       IN  IF todo = <<>>
           THEN /\ worker' = [worker EXCEPT !.pc = "finished", !.todo = <<>>]
                /\ UNCHANGED <<sent, emitted>>
           ELSE LET f == Head(todo)
                    w == [worker EXCEPT !.todo = Tail(todo), !.file = f,
                                        !.uploaded = 0, !.ok = FALSE]
                IN  \E opened \in BOOLEAN :
                       IF HasPath(f) /\ ~opened
                       THEN \* File::open(path).await? fails
                            /\ worker' = [w EXCEPT !.pc = "finish"]
                            /\ UNCHANGED <<sent, emitted>>
                       ELSE IF ~HasPath(f) /\ ~send.preview
                       THEN /\ opened
                            /\ worker' = [w EXCEPT !.pc = "panicked"]
                            /\ UNCHANGED <<sent, emitted>>
                       ELSE /\ HasPath(f) \/ opened
                            /\ worker' = [w EXCEPT !.pc = IF HasPath(f)
                                                          THEN "stream"
                                                          ELSE "response"]
                            /\ sent' = Some(UploadUrl(send.version, f,
                                                      worker.files[f].token,
                                                      worker.remote_session_id))
                            /\ emitted' = <<>>
    /\ UNCHANGED <<quick_save, lock, receive_session, send_session, uuid, req,
                   cleanup_tasks, channels, disk, response, history, send,
                   discovery>>

\* upload_file, lines 190-204: the request body is polled. The reader yields a
\* chunk (progress is sent), an error (the request fails), or its end.
WorkerStream ==
    /\ worker.pc = "stream"
    /\ LET size == FileSize(worker.file)
       IN  \/ /\ worker.uploaded < size
              /\ \E len \in 1..MaxSize :
                    /\ worker.uploaded + len <= size
                    /\ worker' = [worker EXCEPT !.uploaded = @ + len]
                    /\ emitted' = Append(emitted,
                                          ProgressAfter(worker.file,
                                                        worker.uploaded, len, size))
           \/ /\ worker.uploaded < size
              /\ worker' = [worker EXCEPT !.pc = "finish", !.ok = FALSE]
              /\ UNCHANGED emitted
           \/ /\ worker.uploaded = size
              /\ worker' = [worker EXCEPT !.pc = "response"]
              /\ UNCHANGED emitted
    /\ UNCHANGED <<quick_save, lock, receive_session, send_session, uuid, req,
                   cleanup_tasks, channels, disk, response, history, send, sent,
                   discovery>>

\* upload_file, lines 239-243: the peer's response to the upload.
WorkerResponse ==
    /\ worker.pc = "response"
    /\ \E status \in {200, 403, 500} :
          worker' = [worker EXCEPT !.pc = "finish", !.ok = (status = 200)]
    /\ UNCHANGED <<quick_save, lock, receive_session, send_session, uuid, req,
                   cleanup_tasks, channels, disk, response, history, send, sent,
                   emitted, discovery>>

\* The worker, lines 144-147: under the lock, the file's status in the shared
\* SendSession (if there is one) becomes Finished or Failed. The locals of
\* upload_file are gone.
WorkerFinish ==
    /\ worker.pc = "finish"
    /\ ~Locked(lock)
    /\ send_session' =
          IF IsSome(send_session)
          THEN Some([Unwrap(send_session) EXCEPT
                        !.files = ToFinishStatus(@, worker.file, worker.ok)])
          ELSE send_session
    /\ worker' = [worker EXCEPT !.pc = "next", !.file = "", !.ok = FALSE,
                                !.uploaded = 0]
    /\ emitted' = <<>>
    /\ UNCHANGED <<quick_save, lock, receive_session, uuid, req, cleanup_tasks,
                   channels, disk, response, history, send, sent, discovery>>

\* main, lines 144-158 (Ctrl-C): the task waiting for the signal takes the
\* session out of the shared state and calls cancel_by_sender, which posts the
\* cancel request. With Ok the process exits; with an error expect() ends the
\* task and the process goes on. Without a session the process exits.
Interrupt ==
    /\ send.pc \notin {"off", "exited"}
    /\ send.ctrlc
    /\ ~Locked(lock)
    /\ send_session' = None
    /\ IF IsSome(send_session)
       THEN \E reply \in CancelReplies :
               LET c == SessionCancel(TRUE, reply)
               IN  /\ sent' = Some(CancelUrl(send.version,
                                     Unwrap(send_session).remote_session_id))
                   /\ worker' = IF c.aborts THEN Abort(worker) ELSE worker
                   /\ send' = [send EXCEPT
                                 !.ctrlc = FALSE,
                                 !.pc = IF c.result = "Ok" THEN "exited" ELSE @]
       ELSE /\ UNCHANGED <<sent, worker>>
            /\ send' = [send EXCEPT !.pc = "exited", !.ctrlc = FALSE]
    /\ UNCHANGED <<quick_save, lock, receive_session, uuid, req, cleanup_tasks,
                   channels, disk, response, history, emitted, discovery>>

\* ------------------------------------------------- receive engine: cancel

\* A cancel that answers 200 with or without a SendSession.
CancelV1Always(ss) == [send_session |-> None, result |-> "Ok"]

\* A v1 cancel that leaves the session of a v2 peer alone.
CancelV1OfV1PeerOnly(ss) ==
    IF IsSome(ss) /\ ~IsSome(Unwrap(ss).remote_session_id)
    THEN [send_session |-> None, result |-> "Ok"]
    ELSE [send_session |-> ss, result |-> "NoPermission"]

\* cancel_v1: take the SendSession and abort it.
CancelV1(ss) ==
    IF IsSome(ss) THEN [send_session |-> None, result |-> "Ok"]
    ELSE [send_session |-> ss, result |-> "NoPermission"]

\* A v2 cancel that does not look at its sessionId.
CancelV2AnyId(ss, sessionId) == CancelV1(ss)

\* cancel_v2: the same, for the session whose remote_session_id is sessionId.
CancelV2(ss, sessionId) ==
    IF ~IsSome(sessionId) THEN [send_session |-> ss, result |-> "NoPermission"]
    ELSE IF IsSome(ss) /\ Unwrap(ss).remote_session_id # sessionId
    THEN [send_session |-> ss, result |-> "NoPermission"]
    ELSE CancelV1(ss)

\* The session ids this process was given by the peers it sends to.
PeerSessionIds ==
    IF IsSome(send_session) /\ IsSome(Unwrap(send_session).remote_session_id)
    THEN {Unwrap(Unwrap(send_session).remote_session_id)}
    ELSE {}

\* A cancel request arrives (the handlers do not look at the peer address).
\* The sender of a session cancels it this way (SendSession::cancel(true)): on
\* the v1 route, or on the v2 route with the session id the response gave it.
Cancel(c) ==
    /\ CanArrive(c)
    /\ \E v2 \in BOOLEAN,
          sid \in {None} \cup {Some(i) : i \in KnownSessionIds \cup PeerSessionIds} :
        LET d == IF v2 THEN CancelV2(send_session, sid) ELSE CancelV1(send_session)
            bySender == /\ IsSome(receive_session)
                        /\ Unwrap(receive_session).status = "Sending"
                        /\ sid = IF v2 THEN Some(Unwrap(receive_session).session_id)
                                 ELSE None
        IN  \* cancel_v1 has no Query extractor: a sessionId sent to it is ignored;
            \* cancel_v2 answers a missing sessionId before it takes the lock
            /\ ~Locked(lock) \/ (v2 /\ sid = None)
            /\ send_session' = d.send_session
            /\ worker' = IF d.result = "Ok" THEN Abort(worker) ELSE worker
            /\ response' = Response("cancel", "return", "", v2,
                                    [NoQuery EXCEPT !.session_id = sid],
                                    d.result, NoBody)
            /\ cancelled' = IF bySender
                            THEN cancelled \cup {Unwrap(receive_session).session_id}
                            ELSE cancelled
    /\ req' = [req EXCEPT ![c] = ClosedReq]
    /\ UNCHANGED <<quick_save, lock, receive_session, uuid, cleanup_tasks,
                   channels, disk, accepted, twice, succeeded>>
    /\ UNCHANGED <<send, sent, emitted, discovery>>

\* ---------------------------------------------------------------- scanner

\* Datagrams that reach the socket during a scan, at most.
MaxDatagrams == 3

\* Sleeps of a scan that are followed, at most.
MaxSleeps == 22

\* Duration::from_secs(2), in milliseconds.
ScanDuration == 2000

\* Duration::from_millis(100)
SleepMillis == 100

\* self.device.fingerprint
OwnFingerprint == "own"

\* What the multicast group delivers: the scanner's own announcement looped
\* back, peer P, P again with another alias, P again without a port and from
\* another source port, peer Q, and bytes that are not a RegisterDto.
Datagrams ==
    { [valid |-> TRUE, ip |-> "10.0.0.1", port |-> 53317,
       dto |-> [fingerprint |-> OwnFingerprint, alias |-> "me",
                port |-> Some(53318)]],
      [valid |-> TRUE, ip |-> "10.0.0.2", port |-> 53317,
       dto |-> [fingerprint |-> "P", alias |-> "x", port |-> Some(53317)]],
      [valid |-> TRUE, ip |-> "10.0.0.2", port |-> 53317,
       dto |-> [fingerprint |-> "P", alias |-> "y", port |-> Some(53317)]],
      [valid |-> TRUE, ip |-> "10.0.0.2", port |-> 40000,
       dto |-> [fingerprint |-> "P", alias |-> "x", port |-> None]],
      [valid |-> TRUE, ip |-> "10.0.0.3", port |-> 53317,
       dto |-> [fingerprint |-> "Q", alias |-> "x", port |-> Some(53317)]],
      [valid |-> FALSE, ip |-> "10.0.0.3", port |-> 53317,
       dto |-> [fingerprint |-> "", alias |-> "", port |-> None]] }

\* RegisterDto::to_device (the fields that differ between the datagrams)
ToDevice(dto, ip, own_port) ==
    [ip |-> ip,
     port |-> IF IsSome(dto.port) THEN Unwrap(dto.port) ELSE own_port,
     fingerprint |-> dto.fingerprint,
     alias |-> dto.alias]

\* A scan that takes every announcement for a peer's.
IsOwnNever(dto) == FALSE

\* scan, line 64: the announcement is the scanner's own.
IsOwn(dto) == dto.fingerprint = OwnFingerprint

\* Vec::contains with the PartialEq that Device derives: all fields equal.
Contains(devices, device) == \E i \in 1..Len(devices) : devices[i] = device

\* instant.elapsed(), in milliseconds
Elapsed(s) == s.sleeps * SleepMillis

\* scan, line 61: the loop's condition.
ScanContinues(s) == Elapsed(s) < ScanDuration \/ s.devices = <<>>

\* No scan is running.
ScannerOff ==
    [pc |-> "off", sleeps |-> 0, devices |-> <<>>, socket |-> <<>>,
     arrived |-> 0, heard |-> {}, result |-> ""]

ScanFrame ==
    UNCHANGED <<quick_save, lock, receive_session, send_session, uuid, req,
                cleanup_tasks, channels, disk, response, history, sending,
                routed, wire>>

\* scan, lines 55-60: the announcement is sent and the clock started.
ScanStart ==
    /\ scanner.pc = "idle"
    /\ scanner' = [scanner EXCEPT !.pc = "loop"]
    /\ ScanFrame

\* A datagram reaches the bound socket.
Arrive ==
    /\ scanner.pc \in {"idle", "loop"}
    /\ scanner.arrived < MaxDatagrams
    /\ \E d \in Datagrams :
          scanner' = [scanner EXCEPT !.socket = Append(@, d),
                                     !.arrived = @ + 1]
    /\ ScanFrame

\* scan, lines 62-72: try_recv_from has a datagram.
ScanRecv ==
    /\ scanner.pc = "loop"
    /\ ScanContinues(scanner)
    /\ scanner.socket # <<>>
    /\ LET d == Head(scanner.socket)
           device == ToDevice(d.dto, d.ip, d.port)
           rest == [scanner EXCEPT !.socket = Tail(@)]
       IN  scanner' =
               IF ~d.valid
               THEN [rest EXCEPT !.pc = "returned", !.result = "Err"]
               ELSE IF IsOwn(d.dto)
               THEN [rest EXCEPT !.heard = @ \cup {d.dto.fingerprint}]
               ELSE [rest EXCEPT
                       !.heard = @ \cup {d.dto.fingerprint},
                       !.devices = IF Contains(@, device) THEN @
                                   ELSE Append(@, device)]
    /\ ScanFrame

\* scan, line 74: nothing to receive, sleep.
ScanSleep ==
    /\ scanner.pc = "loop"
    /\ ScanContinues(scanner)
    /\ scanner.socket = <<>>
    /\ scanner.sleeps < MaxSleeps
    /\ scanner' = [scanner EXCEPT !.sleeps = @ + 1]
    /\ ScanFrame

\* scan, line 77: the loop has ended.
ScanReturn ==
    /\ scanner.pc = "loop"
    /\ ~ScanContinues(scanner)
    /\ scanner' = [scanner EXCEPT !.pc = "returned", !.result = "Ok"]
    /\ ScanFrame

\* ------------------------------------------------------- route resolver use

Ops == {"PrepareUpload", "Upload", "Cancel"}

\* Devices that a route is resolved for; "2.1" stands for a later version.
RouteDevices ==
    [ip : {"10.0.0.2", "fe80::1"}, port : {80, 53317, 53318},
     https : BOOLEAN, version : Versions \cup {"2.1"}]

\* ApiRoute::target_raw
TargetRaw(op, ip, port, https, version) ==
    (IF https THEN "https" ELSE "http") \o "://" \o ip \o ":"
        \o ToString(port) \o Route(op, version)

\* ApiRoute::target
Target(op, device) ==
    TargetRaw(op, device.ip, device.port, device.https, device.version)

\* start_api_server: the routes of the Router.
MountedRoutes ==
    { Route("PrepareUpload", "1.0"), Route("PrepareUpload", "2.0"),
      Route("Upload", "1.0"), Route("Upload", "2.0"),
      Route("Cancel", "1.0"), Route("Cancel", "2.0") }

\* A caller resolves the target of an operation on a device.
ResolveTarget ==
    /\ \E op \in Ops, device \in RouteDevices :
          routed' = Some([op |-> op, device |-> device,
                          target |-> Target(op, device)])
    /\ UNCHANGED <<quick_save, lock, receive_session, send_session, uuid, req,
                   cleanup_tasks, channels, disk, response, history, sending,
                   scanner, wire>>

\* ------------------------------------------------------------ DTOs as JSON

\* JSON values
JNull == [t |-> "null"]
JString(str) == [t |-> "string", v |-> str]
JNumber(n) == [t |-> "number", v |-> n]
JBool(b) == [t |-> "bool", v |-> b]

\* Option<T> with serde: None is null, Some(x) is x.
JOption(o, t) == IF IsSome(o) THEN [t |-> t, v |-> Unwrap(o)] ELSE JNull
FromJOption(j) == IF j.t = "null" THEN None ELSE Some(j.v)

\* enum FileType and enum DeviceType
FileTypes == {"Image", "Video", "Pdf", "Text", "Apk", "Other"}
DeviceTypes == {"Mobile", "Desktop", "Web", "Headless", "Server"}

\* #[serde(rename_all = "lowercase")] on a unit variant
Lowercase(variant) ==
    CASE variant = "Image" -> "image"
      [] variant = "Video" -> "video"
      [] variant = "Pdf" -> "pdf"
      [] variant = "Text" -> "text"
      [] variant = "Apk" -> "apk"
      [] variant = "Other" -> "other"
      [] variant = "Mobile" -> "mobile"
      [] variant = "Desktop" -> "desktop"
      [] variant = "Web" -> "web"
      [] variant = "Headless" -> "headless"
      [] variant = "Server" -> "server"

\* The derived Deserialize of DeviceType: the variant with that name.
DeviceTypeFromStr(str) == CHOOSE d \in DeviceTypes : Lowercase(d) = str

\* Media types that peers put in fileType.
MediaTypes ==
    {"image/png", "video/mp4", "application/pdf", "text/plain",
     "application/vnd.android.package-archive", "application/zip"}

\* Mime::from_str: type and subtype of a string of the form type/subtype; a
\* string without a slash is an error (None).
MimeFromStr(str) ==
    CASE str = "image/png" -> Some([type |-> "image", subtype |-> "png"])
      [] str = "video/mp4" -> Some([type |-> "video", subtype |-> "mp4"])
      [] str = "application/pdf" ->
            Some([type |-> "application", subtype |-> "pdf"])
      [] str = "text/plain" -> Some([type |-> "text", subtype |-> "plain"])
      [] str = "application/vnd.android.package-archive" ->
            Some([type |-> "application",
                  subtype |-> "vnd.android.package-archive"])
      [] str = "application/zip" ->
            Some([type |-> "application", subtype |-> "zip"])
      [] OTHER -> None

\* impl From<Mime> for FileType
FileTypeFromMime(mime) ==
    CASE mime.type = "image" -> "Image"
      [] mime.type = "video" -> "Video"
      [] mime.type = "application" /\ mime.subtype = "pdf" -> "Pdf"
      [] mime.type = "text" -> "Text"
      [] mime.type = "application"
            /\ mime.subtype = "vnd.android.package-archive" -> "Apk"
      [] OTHER -> "Other"

\* impl Deserialize for FileType: the string is parsed as a Mime, and a string
\* that is none is FileType::default().
DeserializeFileType(str) ==
    LET mime == MimeFromStr(str)
    IN  IF IsSome(mime) THEN FileTypeFromMime(Unwrap(mime)) ELSE "Other"

\* The derived Serialize of FileType
SerializeFileType(file_type) == Lowercase(file_type)

\* FileDto, MulticastDto and RegisterDto values (ProtocolType is left out).
FileDtos ==
    [kind : {"FileDto"}, id : {"F", "G"}, file_name : {"f.bin"}, size : {0, 1},
     file_type : FileTypes, hash : {None, Some("h")},
     preview : {None, Some("p")}]

MulticastDtos ==
    [kind : {"MulticastDto"}, alias : {"a", "b"}, version : {None, Some("2.0")},
     device_model : {None, Some("m")},
     device_type : {None, Some("Mobile"), Some("Headless")},
     fingerprint : {"P"}, port : {None, Some(53317)},
     download : {None}, announcement : {None, Some(TRUE)}, announce : {None}]

RegisterDtos ==
    [kind : {"RegisterDto"}, alias : {"a", "b"}, version : {None, Some("2.0")},
     device_model : {None},
     device_type : {None, Some("Desktop"), Some("Server")},
     fingerprint : {"P"}, port : {None, Some(53317)},
     download : {None, Some(FALSE)}]

\* serde_json::to_value of a FileDto (camelCase keys)
SerializeFileDto(dto) ==
    [id |-> JString(dto.id), fileName |-> JString(dto.file_name),
     size |-> JNumber(dto.size),
     fileType |-> JString(SerializeFileType(dto.file_type)),
     hash |-> JOption(dto.hash, "string"),
     preview |-> JOption(dto.preview, "string")]

\* serde_json::from_value::<FileDto>
DeserializeFileDto(json) ==
    [kind |-> "FileDto", id |-> json.id.v, file_name |-> json.fileName.v,
     size |-> json.size.v,
     file_type |-> DeserializeFileType(json.fileType.v),
     hash |-> FromJOption(json.hash), preview |-> FromJOption(json.preview)]

JDeviceType(d) == JString(Lowercase(d))

FromJDeviceType(j) ==
    IF j.t = "null" THEN None ELSE Some(DeviceTypeFromStr(j.v))

\* The fields that MulticastDto and RegisterDto share.
SerializeAnnounced(dto) ==
    [alias |-> JString(dto.alias), version |-> JOption(dto.version, "string"),
     deviceModel |-> JOption(dto.device_model, "string"),
     deviceType |-> IF IsSome(dto.device_type)
                    THEN JDeviceType(Unwrap(dto.device_type)) ELSE JNull,
     fingerprint |-> JString(dto.fingerprint),
     port |-> JOption(dto.port, "number"),
     download |-> JOption(dto.download, "bool")]

\* serde_json::to_value of a MulticastDto
SerializeMulticastDto(dto) ==
    [k \in {"alias", "version", "deviceModel", "deviceType", "fingerprint",
            "port", "download", "announcement", "announce"} |->
        CASE k = "announcement" -> JOption(dto.announcement, "bool")
          [] k = "announce" -> JOption(dto.announce, "bool")
          [] OTHER -> SerializeAnnounced(dto)[k]]

\* serde_json::from_value::<RegisterDto>
DeserializeRegisterDto(json) ==
    [kind |-> "RegisterDto", alias |-> json.alias.v,
     version |-> FromJOption(json.version),
     device_model |-> FromJOption(json.deviceModel),
     device_type |-> FromJDeviceType(json.deviceType),
     fingerprint |-> json.fingerprint.v, port |-> FromJOption(json.port),
     download |-> FromJOption(json.download)]

\* serde_json::from_value::<MulticastDto>
DeserializeMulticastDto(json) ==
    [kind |-> "MulticastDto", alias |-> json.alias.v,
     version |-> FromJOption(json.version),
     device_model |-> FromJOption(json.deviceModel),
     device_type |-> FromJDeviceType(json.deviceType),
     fingerprint |-> json.fingerprint.v, port |-> FromJOption(json.port),
     download |-> FromJOption(json.download),
     announcement |-> FromJOption(json.announcement),
     announce |-> FromJOption(json.announce)]

Serialize(dto) ==
    CASE dto.kind = "FileDto" -> SerializeFileDto(dto)
      [] dto.kind = "MulticastDto" -> SerializeMulticastDto(dto)
      [] dto.kind = "RegisterDto" -> SerializeAnnounced(dto)

Deserialize(kind, json) ==
    CASE kind = "FileDto" -> DeserializeFileDto(json)
      [] kind = "MulticastDto" -> DeserializeMulticastDto(json)
      [] kind = "RegisterDto" -> DeserializeRegisterDto(json)

DtoFrame ==
    UNCHANGED <<quick_save, lock, receive_session, send_session, uuid, req,
                cleanup_tasks, channels, disk, response, history, sending,
                scanner, routed>>

\* A DTO of this process is serialized and the JSON is read back.
RoundTrip ==
    /\ \E dto \in FileDtos \cup MulticastDtos \cup RegisterDtos :
          wire' = Some([input |-> Some(dto), json |-> Serialize(dto),
                        output |-> Deserialize(dto.kind, Serialize(dto))])
    /\ DtoFrame

\* The FileDto of a peer that puts a media type in fileType is read.
ReadPeerFile ==
    /\ \E media \in MediaTypes :
          LET json == [SerializeFileDto(CHOOSE d \in FileDtos : TRUE)
                          EXCEPT !.fileType = JString(media)]
          IN  wire' = Some([input |-> None, json |-> json,
                            output |-> DeserializeFileDto(json)])
    /\ DtoFrame

\* ------------------------------------------------------- specification

\* ServerState::new and the process around it, before any request.
ServerInit ==
    /\ quick_save \in BOOLEAN
    /\ lock = None
    /\ receive_session = None
    /\ uuid = 1
    /\ req = [r \in Requests |-> BlankReq]
    /\ cleanup_tasks = 0
    /\ server_chan = <<>>
    /\ client_chan = <<>>
    /\ ui = [rx_open |-> TRUE, tx_open |-> TRUE, pending |-> None]
    /\ progress_chan = <<>>
    /\ disk = {}
    /\ response = None
    /\ accepted = {}
    /\ twice = {}
    /\ succeeded = {}
    /\ cancelled = {}
    /\ send_session = None
    /\ worker = NoWorker
    /\ sent = None
    /\ emitted = <<>>
    /\ wire = None

\* A process started to receive: the run loop is never reached.
Init ==
    /\ ServerInit
    /\ send = SendOff
    /\ scanner = ScannerOff
    /\ routed = None

\* The node with its UI; the peers send the upload queries of a sender.
Next ==
    \/ \E r \in Requests : PrepareGate(r)
    \/ \E r \in Requests : PrepareSend(r)
    \/ \E r \in Requests : PrepareRecv(r)
    \/ \E r \in Requests : PrepareDrop(r)
    \/ Cleanup
    \/ UIRecv
    \/ UIReply
    \/ UIClose
    \/ \E r \in Requests : UploadCheck(r, SenderQueries)
    \/ \E r \in Requests : UploadCreate(r)
    \/ \E r \in Requests : UploadStream(r)
    \/ \E r \in Requests : UploadFinal(r)
    \/ \E r \in Requests : Cancel(r)

Spec == Init /\ [][Next]_vars

\* The blocking pool runs every task spawned on it, and the tokio Mutex is fair:
\* a cleanup task that can take the lock does take it.
FairSpec == Spec /\ WF_vars(Cleanup)

\* The node started with --quick-save (no UI is asked); the peers send any query.
QuickSaveInit == Init /\ quick_save

QuickSaveNext ==
    \/ \E r \in Requests : PrepareGate(r)
    \/ Cleanup
    \/ \E r \in Requests : UploadCheck(r, Queries)
    \/ \E r \in Requests : UploadCreate(r)
    \/ \E r \in Requests : UploadStream(r)
    \/ \E r \in Requests : UploadFinal(r)
    \/ \E r \in Requests : Cancel(r)

QuickSaveSpec == QuickSaveInit /\ [][QuickSaveNext]_vars

\* A process started to send (quick_save keeps its default): the run loop and
\* its sessions, Ctrl-C, and the cancel requests of peers. (Nothing reads
\* server_rx in this mode: a prepare-upload of a peer gets no answer and keeps
\* the lock while it waits, which stops the steps below and adds none.)
SendInit ==
    /\ ServerInit
    /\ ~quick_save
    /\ send = [SendOff EXCEPT !.pc = "idle"]
    /\ scanner = ScannerOff
    /\ routed = None

SendNext ==
    \/ SendStart
    \/ SendPrepared
    \/ SendInstall
    \/ SendJoin
    \/ SendTake
    \/ WorkerNext
    \/ WorkerStream
    \/ WorkerResponse
    \/ WorkerFinish
    \/ Interrupt
    \/ \E r \in Requests : send.pc # "exited" /\ Cancel(r)

SendSpec == SendInit /\ [][SendNext]_vars

\* Progress events in a process of either mode. Started to receive: the node
\* with its UI and the progress channel, where the uploads of a sender are read
\* chunk by chunk and the UI takes the events when it does. Started to send:
\* SendSpec.
ProgressInit == (Init /\ ~quick_save) \/ SendInit
ReceiveProgressNext ==
    \/ \E r \in Requests : PrepareGate(r)
    \/ \E r \in Requests : PrepareSend(r)
    \/ \E r \in Requests : PrepareRecv(r)
    \/ Cleanup
    \/ UIRecv
    \/ UIReply
    \/ \E r \in Requests : UploadCheck(r, SenderQueries)
    \/ \E r \in Requests : UploadCreate(r)
    \/ \E r \in Requests : UploadRead(r)
    \/ \E r \in Requests : UploadSend(r)
    \/ \E r \in Requests : UploadStream(r)
    \/ \E r \in Requests : UploadFinal(r)
    \/ ProgressRecv
ProgressNext ==
    \/ send.pc = "off" /\ ReceiveProgressNext
    \/ send.pc # "off" /\ SendNext
ProgressSpec == ProgressInit /\ [][ProgressNext]_vars

\* A process started to send that peers send prepare-upload requests to. Its
\* server_rx and client_tx stay in main and are never used: a request that
\* passes the gate is posted to the channel and then waits for a reply.
InboundInit == SendInit
InboundNext ==
    \/ SendStart
    \/ SendPrepared
    \/ SendInstall
    \/ SendJoin
    \/ SendTake
    \/ WorkerNext
    \/ WorkerStream
    \/ WorkerResponse
    \/ WorkerFinish
    \/ \E r \in Requests : PrepareGate(r)
    \/ \E r \in Requests : PrepareSend(r)
InboundSpec == InboundInit /\ [][InboundNext]_vars

\* One scan of the multicast group, on the socket bound at start.
ScanInit ==
    /\ ServerInit
    /\ ~quick_save
    /\ send = SendOff
    /\ scanner = [ScannerOff EXCEPT !.pc = "idle"]
    /\ routed = None

ScanNext ==
    \/ ScanStart
    \/ Arrive
    \/ ScanRecv
    \/ ScanSleep
    \/ ScanReturn

ScanSpec == ScanInit /\ [][ScanNext]_vars

\* Route resolution on its own.
RouteInit ==
    /\ ServerInit
    /\ ~quick_save
    /\ send = SendOff
    /\ scanner = ScannerOff
    /\ routed = None

RouteNext == ResolveTarget

RouteSpec == RouteInit /\ [][RouteNext]_vars

\* A node that runs with quick_save, or whose UI never answers, and peers that
\* send any upload query and may hang up on a prepare-upload.
PeerInit == Init

PeerNext ==
    \/ \E r \in Requests : PrepareGate(r)
    \/ \E r \in Requests : PrepareSend(r)
    \/ \E r \in Requests : PrepareDrop(r)
    \/ Cleanup
    \/ \E r \in Requests : UploadCheck(r, Queries)
    \/ \E r \in Requests : UploadCreate(r)
    \/ \E r \in Requests : UploadStream(r)
    \/ \E r \in Requests : UploadFinal(r)

PeerSpec == PeerInit /\ [][PeerNext]_vars

\* DTOs written and read, on their own.
DtoInit ==
    /\ ServerInit
    /\ ~quick_save
    /\ send = SendOff
    /\ scanner = ScannerOff
    /\ routed = None

DtoNext ==
    \/ RoundTrip
    \/ ReadPeerFile

DtoSpec == DtoInit /\ [][DtoNext]_vars

\* A process of either kind: main serves requests with its UI when started to
\* receive, and runs the send loop otherwise.
ProcessInit == Init \/ SendInit

ProcessNext ==
    \/ send.pc = "off" /\ Next
    \/ send.pc # "off" /\ SendNext

ProcessSpec == ProcessInit /\ [][ProcessNext]_vars

\* ------------------------------------------------------------ properties

\* The step is the arrival of a prepare-upload request in slot p.
PrepareArrives(p) ==
    /\ req[p].kind = "none"
    /\ \/ req'[p].kind = "prepare"
       \/ req'[p].kind = "closed" /\ IsSome(response')
                                  /\ Unwrap(response').kind = "prepare"

\* The step is the arrival of an upload request in slot u.
UploadArrives(u) ==
    /\ req[u].kind = "none"
    /\ req'[u].kind # "none"
    /\ IsSome(response') /\ Unwrap(response').kind = "upload"

\* The step answers a request of that kind with that result.
Answers(kind, result) ==
    /\ IsSome(response')
    /\ Unwrap(response').kind = kind
    /\ Unwrap(response').result = result

\* No handler is running and no cleanup task is pending.
Quiescent ==
    /\ \A r \in Requests : req[r].kind \in {"none", "closed"}
    /\ cleanup_tasks = 0
    /\ ~Locked(lock)

\* C1: while a ReceiveSession exists or the lock is held, a prepare-upload that
\* arrives is answered SessionBlocked (409) and changes neither the session nor
\* the lock; a session is installed only when there is none and the lock is
\* free, an installed session is never replaced by another, and at most one
\* prepare-upload handler is past the gate at a time.
C1_OneSessionAtATime ==
    [][ /\ \A p \in Requests :
              (PrepareArrives(p) /\ (Locked(lock) \/ IsSome(receive_session))) =>
                  /\ Answers("prepare", "SessionBlocked")
                  /\ StatusCode(Unwrap(response').result) = 409
                  /\ receive_session' = receive_session
                  /\ lock' = lock
        /\ (receive_session = None /\ IsSome(receive_session')) => ~Locked(lock)
        /\ (IsSome(receive_session) /\ IsSome(receive_session')) =>
              Unwrap(receive_session').session_id =
                  Unwrap(receive_session).session_id
        /\ Cardinality({p \in Requests : req'[p].kind = "prepare"}) <= 1
      ]_vars

\* C1: a prepare-upload was refused with SessionBlocked while a Sending session
\* of an earlier request exists and the lock is free.
C1_Witness ==
    /\ IsSome(receive_session)
    /\ Unwrap(receive_session).status = "Sending"
    /\ ~Locked(lock)
    /\ IsSome(response)
    /\ Unwrap(response).kind = "prepare"
    /\ Unwrap(response).result = "SessionBlocked"

\* A prepare-upload handler has left (returned, panicked or was dropped) and the
\* session it installed is still Waiting.
Abandoned ==
    /\ IsSome(receive_session)
    /\ Unwrap(receive_session).status = "Waiting"
    /\ ~Locked(lock)

\* C4: once prepare-upload has left with its session still Waiting, the session
\* is eventually removed (the cleanup task being scheduled fairly).
C4_WaitingSessionCollected == Abandoned ~> (receive_session = None)

\* C4: the handler left a Waiting session behind because the UI had dropped its
\* receiver (the send panics), and the cleanup task has not run yet.
C4_Witness ==
    /\ Abandoned
    /\ ~ui.rx_open
    /\ cleanup_tasks > 0

\* C5: once the sender of a Sending session has called cancel and every handler
\* and cleanup task has finished, the receiver has no ReceiveSession left.
C5_SessionGoneAfterCancel ==
    (Quiescent /\ IsSome(receive_session)) =>
        Unwrap(receive_session).session_id \notin cancelled

\* C5: the sender's cancel was answered NoPermission (the receiver has no
\* SendSession) and the cancelled session stays, with a file never uploaded.
C5_Witness ==
    /\ Quiescent
    /\ IsSome(receive_session)
    /\ Unwrap(receive_session).session_id \in cancelled
    /\ \E f \in DOMAIN Unwrap(receive_session).files :
          Unwrap(receive_session).files[f].status = "Queue"
    /\ IsSome(response)
    /\ Unwrap(response).kind = "cancel"
    /\ Unwrap(response).result = "NoPermission"

\* The step is prepare-upload handler p receiving the UI's Declined.
ReceivesDeclined(p) ==
    /\ req[p].kind = "prepare" /\ req[p].pc = "recv"
    /\ Len(client_chan) > 0 /\ Head(client_chan).type = "Declined"
    /\ req'[p].kind = "closed"
    /\ IsSome(response')

\* C6: when the UI answers Declined (quick_save off), the handler removes the
\* session and fails with SessionDeclined (403); the sender's upload() makes
\* Rejected of that response (it installs a SendSession for no response but a
\* 200 with tokens).
C6_DeclinedRemovesSession ==
    [][ \A p \in Requests : ReceivesDeclined(p) =>
            /\ ~quick_save
            /\ receive_session' = None
            /\ Answers("prepare", "SessionDeclined")
            /\ StatusCode(Unwrap(response').result) = 403
            /\ SendUploadOutcome(StatusCode(Unwrap(response').result),
                                 Unwrap(response').resp) = "Rejected"
      ]_vars

\* C6: a prepare-upload has just been answered SessionDeclined and the session
\* is gone.
C6_Witness ==
    /\ ~quick_save
    /\ IsSome(response)
    /\ Unwrap(response).kind = "prepare"
    /\ Unwrap(response).result = "SessionDeclined"
    /\ receive_session = None
    /\ uuid > 1

\* C2: no token passes validation twice; a token that was accepted is no longer
\* the token of any file of the session, and at most one handler is saving a
\* file under it.
C2_TokenAcceptedOnce ==
    /\ twice = {}
    /\ \A t \in accepted :
          /\ Cardinality({u \in Requests :
                             req[u].kind = "upload" /\ req[u].token = t}) <= 1
          /\ IsSome(receive_session) =>
                \A f \in DOMAIN Unwrap(receive_session).files :
                    Unwrap(receive_session).files[f].token # Some(t)

\* C2: while the upload that consumed a token is still saving its file, a second
\* request with the same file id and token has been refused.
C2_Witness ==
    /\ IsSome(response)
    /\ Unwrap(response).kind = "upload"
    /\ Unwrap(response).stage = "validate"
    /\ Unwrap(response).result = "InvalidToken"
    /\ \E u \in Requests :
          /\ req[u].kind = "upload"
          /\ Unwrap(response).file_id = Some(req[u].file_id)
          /\ Unwrap(response).token = Some(req[u].token)
          /\ req[u].token \in accepted

\* The request the step decided on repeats upload s, which was answered 200:
\* the same sender, file id, token and session id.
Repeats(s) ==
    /\ Unwrap(response').ip = s.ip
    /\ Unwrap(response').file_id = Some(s.file_id)
    /\ Unwrap(response').token = Some(s.token)
    /\ Unwrap(response').session_id = Some(s.session_id)

\* C3: an upload request that repeats an upload already answered 200 (same
\* sender, file id, token) is answered InvalidToken (403).
C3_RetryIsInvalidToken ==
    [][ \A u \in Requests : \A s \in succeeded :
            (UploadArrives(u) /\ Repeats(s)) =>
                /\ Unwrap(response').result = "InvalidToken"
                /\ StatusCode(Unwrap(response').result) = 403
      ]_vars

\* C3: the repeat of a successful upload was answered SessionNotExists: the
\* session went away with its last file.
C3_Witness ==
    /\ IsSome(response)
    /\ Unwrap(response).kind = "upload"
    /\ Unwrap(response).result = "SessionNotExists"
    /\ receive_session = None
    /\ \E s \in succeeded :
          /\ Unwrap(response).ip = s.ip
          /\ Unwrap(response).file_id = Some(s.file_id)
          /\ Unwrap(response).token = Some(s.token)
          /\ Unwrap(response).session_id = Some(s.session_id)

\* The step is the end of upload handler u after save_file met a read error on
\* the request body.
EndsAfterReadError(u) ==
    /\ req[u].kind = "upload" /\ req[u].pc = "saved"
    /\ req[u].created /\ req[u].save_result = "Cancelled"
    /\ req'[u].kind = "closed"

\* C7: an upload whose body could not be read to its end is answered Cancelled,
\* that is, with status 200.
C7_StreamErrorAnswersCancelled ==
    [][ \A u \in Requests : EndsAfterReadError(u) =>
            /\ Answers("upload", "Cancelled")
            /\ StatusCode(Unwrap(response').result) = 200
      ]_vars

\* The step is the end of upload handler u, which had created its file and then
\* failed while streaming: a panic on write, or an error of read or flush.
EndsAfterStreamFailure(u) ==
    /\ req[u].kind = "upload" /\ req[u].created
    /\ \/ req[u].pc = "stream"
       \/ req[u].pc = "saved" /\ req[u].save_result # "Ok"
    /\ req'[u].kind = "closed"

\* C8: when an upload that failed while streaming ends, its file is not in the
\* destination directory.
C8_FailedUploadLeavesNoFile ==
    [][ \A u \in Requests : EndsAfterStreamFailure(u) =>
            req[u].file_id \notin disk'
      ]_vars

\* C7: an upload that met a read error has just been answered SaveFileFailed.
C7_Witness ==
    /\ IsSome(response)
    /\ Unwrap(response).kind = "upload"
    /\ Unwrap(response).stage = "final"
    /\ Unwrap(response).save_result = "Cancelled"
    /\ Unwrap(response).result = "SaveFileFailed"
    /\ \E f \in Files : Unwrap(response).file_id = Some(f) /\ f \notin disk

\* C8: in the first session, with no upload running and none answered 200, a
\* file is in the destination directory: an upload that failed left it there.
C8_Witness ==
    /\ \A u \in Requests : req[u].kind # "upload"
    /\ uuid > 1 /\ LastId = 1
    /\ succeeded = {}
    /\ accepted # {}
    /\ disk # {}

\* C9: an upload from a peer address other than the session's sender's is
\* answered InvalidIp (403), whatever its parameters, and leaves the session as
\* it was (tokens and statuses included).
C9_ForeignIpRefused ==
    [][ \A u \in Requests :
            (/\ UploadArrives(u)
             /\ IsSome(receive_session)
             /\ Unwrap(response').ip # Unwrap(receive_session).sender_ip) =>
                /\ Unwrap(response').result = "InvalidIp"
                /\ StatusCode(Unwrap(response').result) = 403
                /\ receive_session' = receive_session
      ]_vars

\* C9: a request with the right file id, token and session id was refused with
\* InvalidIp, and the file is still in the queue with its token.
C9_Witness ==
    /\ IsSome(response) /\ IsSome(receive_session)
    /\ Unwrap(response).kind = "upload"
    /\ Unwrap(response).result = "InvalidIp"
    /\ Unwrap(response).session_id = Some(Unwrap(receive_session).session_id)
    /\ \E f \in DOMAIN Unwrap(receive_session).files :
          /\ Unwrap(response).file_id = Some(f)
          /\ Unwrap(response).token = Unwrap(receive_session).files[f].token
          /\ IsSome(Unwrap(receive_session).files[f].token)
          /\ Unwrap(receive_session).files[f].status = "Queue"

\* The request the step decided on names a file of session s with its token,
\* from the sender's address, while s is Sending.
ValidButForSessionId(s) ==
    /\ Unwrap(response').ip = s.sender_ip
    /\ s.status = "Sending"
    /\ \E f \in DOMAIN s.files :
          /\ Unwrap(response').file_id = Some(f)
          /\ IsSome(s.files[f].token)
          /\ Unwrap(response').token = s.files[f].token

\* C10: on the v2 route an upload is accepted only with the session's id as
\* sessionId, and an otherwise valid request with another id is answered
\* InvalidSessionId (403) with the session unchanged; on the v1 route an
\* otherwise valid request is accepted whatever its sessionId.
C10_SessionIdOnV2Only ==
    [][ \A u \in Requests :
            (UploadArrives(u) /\ IsSome(receive_session)) =>
                LET s == Unwrap(receive_session)
                    r == Unwrap(response')
                IN  /\ (r.v2 /\ r.stage = "accept") =>
                            r.session_id = Some(s.session_id)
                    /\ (/\ r.v2 /\ ValidButForSessionId(s)
                        /\ IsSome(r.session_id)
                        /\ r.session_id # Some(s.session_id)) =>
                            /\ r.result = "InvalidSessionId"
                            /\ StatusCode(r.result) = 403
                            /\ receive_session' = receive_session
                    /\ (~r.v2 /\ ValidButForSessionId(s)) => r.stage = "accept"
      ]_vars

\* C10: an upload was accepted on the v1 route with a sessionId that is not the
\* session's.
C10_Witness ==
    /\ IsSome(response) /\ IsSome(receive_session)
    /\ Unwrap(response).kind = "upload"
    /\ Unwrap(response).stage = "accept"
    /\ ~Unwrap(response).v2
    /\ IsSome(Unwrap(response).session_id)
    /\ Unwrap(response).session_id # Some(Unwrap(receive_session).session_id)

\* The step is the arrival of a cancel request in slot c.
CancelArrives(c) ==
    /\ req[c].kind = "none"
    /\ req'[c].kind = "closed"
    /\ IsSome(response') /\ Unwrap(response').kind = "cancel"

\* The worker task exists and has not ended.
Running(w) == w.pc \notin {"none", "finished", "aborted", "panicked"}

\* C11: a v2 cancel whose sessionId is the SendSession's remote_session_id, and
\* a v1 cancel when a SendSession exists, takes the session, leaves no worker
\* running and answers 200; every other cancel (v2 without sessionId, with
\* another one, or with no SendSession; v1 with no SendSession) answers
\* NoPermission (403) and leaves send_session and the worker as they were.
C11_CancelTakesMatchingSession ==
    [][ \A c \in Requests : CancelArrives(c) =>
            LET r == Unwrap(response')
                permitted ==
                    /\ IsSome(send_session)
                    /\ r.v2 => /\ IsSome(r.session_id)
                               /\ Unwrap(send_session).remote_session_id =
                                      r.session_id
            IN  IF permitted
                THEN /\ r.result = "Ok" /\ StatusCode(r.result) = 200
                     /\ send_session' = None
                     /\ ~Running(worker')
                ELSE /\ r.result = "NoPermission" /\ StatusCode(r.result) = 403
                     /\ send_session' = send_session
                     /\ worker' = worker
      ]_vars

\* C11: a v2 cancel with the session's remote_session_id was answered 200 while
\* upload was waiting for its worker: the session is gone, the worker aborted.
C11_Witness ==
    /\ IsSome(response)
    /\ Unwrap(response).kind = "cancel"
    /\ Unwrap(response).v2
    /\ Unwrap(response).session_id = Some(RemoteSessionId(send.n))
    /\ Unwrap(response).result = "Ok"
    /\ send.pc = "join"
    /\ send_session = None
    /\ worker.pc = "aborted"

\* C12: a cancel request changes nothing of the ReceiveSession, and in a
\* process without a SendSession it is answered NoPermission (403).
C12_CancelLeavesReceiveSession ==
    [][ \A c \in Requests : CancelArrives(c) =>
            /\ receive_session' = receive_session
            /\ send_session = None =>
                  /\ Unwrap(response').result = "NoPermission"
                  /\ StatusCode(Unwrap(response').result) = 403
                  /\ send_session' = None
      ]_vars

\* C12: a v2 cancel naming the ReceiveSession's own id was answered
\* NoPermission while one of the session's files was being uploaded.
C12_Witness ==
    /\ IsSome(response) /\ IsSome(receive_session)
    /\ Unwrap(response).kind = "cancel"
    /\ Unwrap(response).v2
    /\ Unwrap(response).session_id = Some(Unwrap(receive_session).session_id)
    /\ Unwrap(response).result = "NoPermission"
    /\ \E f \in DOMAIN Unwrap(receive_session).files :
          Unwrap(receive_session).files[f].status = "Sending"

\* The step is the successful return of prepare-upload handler p.
PrepareSucceeds(p) ==
    /\ req[p].kind \in {"none", "prepare"}
    /\ req'[p].kind = "closed"
    /\ Answers("prepare", "Ok")

\* C13: when prepare-upload succeeds the session is Sending, its files are the
\* accepted files (all offered files with quick_save, with no UI message; the
\* UI's selection otherwise), each in Queue with a token of its own; the
\* response maps these ids to these tokens, with the session id on the v2 route
\* and without one on the v1 route (.../v1/send-request).
C13_PrepareSuccess ==
    [][ \A p \in Requests : PrepareSucceeds(p) =>
            LET r == Unwrap(response')
                s == Unwrap(receive_session')
                chosen == IF quick_save THEN r.files
                          ELSE Head(client_chan).files
            IN  /\ IsSome(receive_session')
                /\ s.status = "Sending"
                /\ DOMAIN s.files = chosen
                /\ \A f \in chosen :
                      /\ s.files[f].status = "Queue"
                      /\ IsSome(s.files[f].token)
                      /\ \A g \in chosen \ {f} :
                            s.files[g].token # s.files[f].token
                /\ DOMAIN r.resp.files = chosen
                /\ \A f \in chosen : Some(r.resp.files[f]) = s.files[f].token
                /\ r.resp.session_id = IF r.v2 THEN Some(s.session_id) ELSE None
                /\ quick_save => /\ UNCHANGED channels
                                 /\ server_chan = <<>> /\ client_chan = <<>>
                /\ Route("PrepareUpload", "1.0") =
                      "/api/localsend/v1/send-request"
      ]_vars

\* C13: without quick_save, a v1 prepare-upload offering two files succeeded
\* with one of them accepted by the UI.
C13_Witness ==
    /\ ~quick_save
    /\ IsSome(response) /\ IsSome(receive_session)
    /\ Unwrap(response).kind = "prepare"
    /\ Unwrap(response).result = "Ok"
    /\ ~Unwrap(response).v2
    /\ Unwrap(response).files = Files
    /\ Cardinality(DOMAIN Unwrap(response).resp.files) = 1
    /\ DOMAIN Unwrap(receive_session).files = DOMAIN Unwrap(response).resp.files

\* A file status may become b after a.
Forward(a, b) ==
    \/ a = b
    \/ a = "Queue" /\ b \in {"Sending", "Finished", "Failed", "Skipped"}
    \/ a = "Sending" /\ b \in {"Finished", "Failed", "Skipped"}

\* The SendSession of the running upload call: the call's own before it is
\* installed, the one in the shared state after.
SendingSession(s, ss) == IF IsSome(s.session) THEN s.session ELSE ss

\* Every file of session a is a file of session b with a status that a's may
\* become.
FilesForward(a, b) ==
    \A f \in DOMAIN a.files :
        /\ f \in DOMAIN b.files
        /\ Forward(a.files[f].status, b.files[f].status)

\* C14: over every step, the status of each file of the ReceiveSession and of
\* the SendSession stays or moves forward along Queue, Sending, {Finished,
\* Failed, Skipped}.
C14_StatusMovesForward ==
    [][ /\ (/\ IsSome(receive_session) /\ IsSome(receive_session')
            /\ Unwrap(receive_session').session_id =
                  Unwrap(receive_session).session_id) =>
               FilesForward(Unwrap(receive_session), Unwrap(receive_session'))
        /\ LET a == SendingSession(send, send_session)
               b == SendingSession(send', send_session')
           IN  (IsSome(a) /\ IsSome(b) /\ Unwrap(b).id = Unwrap(a).id) =>
                   FilesForward(Unwrap(a), Unwrap(b))
      ]_vars

\* C14: in a SendSession one file has Finished and the other has Failed.
C14_Witness ==
    /\ IsSome(send_session)
    /\ \E f, g \in DOMAIN Unwrap(send_session).files :
          /\ Unwrap(send_session).files[f].status = "Finished"
          /\ Unwrap(send_session).files[g].status = "Failed"

\* The upload and cancel requests of the current session carry its
\* remote_session_id: the id of the peer's response for a v2 peer, none for a
\* peer of version 1.0.
SentCarriesSessionId ==
    (IsSome(sent) /\ Unwrap(sent).op # "PrepareUpload") =>
        /\ Unwrap(sent).version = send.version
        /\ Unwrap(sent).session_id =
              IF send.version = "1.0" THEN None
              ELSE Some(RemoteSessionId(send.n))

\* remote_session_id is absent for a peer of version 1.0; for another peer it
\* is absent or the session id of the peer's response, and it is that id in the
\* session that upload has installed.
RemoteSessionIdSet ==
    LET s == SendingSession(send, send_session)
        id == Some(RemoteSessionId(Unwrap(s).id))
    IN  IsSome(s) =>
            /\ send.version = "1.0" => Unwrap(s).remote_session_id = None
            /\ Unwrap(s).remote_session_id \in {None, id}
            /\ (IsSome(send_session) /\ send.version # "1.0") =>
                   Unwrap(s).remote_session_id = id

\* C15: remote_session_id is assigned once, from the prepare-upload response
\* and before any upload request, and only for a peer that is not of version
\* 1.0; every upload and cancel URL of such a session carries it, and the URLs
\* of a session with a 1.0 peer carry none.
C15_RemoteSessionId ==
    [][ /\ SentCarriesSessionId'
        /\ RemoteSessionIdSet'
        /\ LET a == SendingSession(send, send_session)
               b == SendingSession(send', send_session')
           IN  (/\ IsSome(a) /\ IsSome(b) /\ Unwrap(b).id = Unwrap(a).id
                /\ IsSome(Unwrap(a).remote_session_id)) =>
                   Unwrap(b).remote_session_id = Unwrap(a).remote_session_id
      ]_vars

\* C15: the sender of a session with a v2 peer was interrupted and its cancel
\* URL carries the session id of the peer's response.
C15_Witness ==
    /\ send.pc = "exited"
    /\ send.version = "2.0"
    /\ IsSome(sent)
    /\ Unwrap(sent).op = "Cancel"
    /\ Unwrap(sent).path = "/api/localsend/v2/cancel"
    /\ Unwrap(sent).session_id = Some(RemoteSessionId(send.n))

\* The worker has the 200 of the upload of its file.
UploadCompleted == worker.pc = "finish" /\ worker.ok

\* C16: when the upload of a file has completed, progress events were sent for
\* it, with the file's id and positions that do not decrease, the last one with
\* position = file.size and finish = true.
C16_ProgressEndsAtSize ==
    UploadCompleted =>
        /\ emitted # <<>>
        /\ \A i \in 1..Len(emitted) : emitted[i].file_id = worker.file
        /\ \A i \in 1..(Len(emitted) - 1) :
              emitted[i].position <= emitted[i + 1].position
        /\ emitted[Len(emitted)].position = FileSize(worker.file)
        /\ emitted[Len(emitted)].finish

\* C16: the upload of a file of 0 bytes has completed and no progress event was
\* sent for it.
C16_Witness ==
    /\ UploadCompleted
    /\ HasPath(worker.file)
    /\ FileSize(worker.file) = 0
    /\ emitted = <<>>

\* C17: the devices that scan collects and returns never include one with the
\* scanner's own fingerprint.
C17_OwnFingerprintNotListed ==
    \A i \in 1..Len(scanner.devices) :
        scanner.devices[i].fingerprint # OwnFingerprint

\* C17: scan has returned a peer after it received its own announcement.
C17_Witness ==
    /\ scanner.pc = "returned"
    /\ scanner.result = "Ok"
    /\ OwnFingerprint \in scanner.heard
    /\ scanner.devices # <<>>

\* C18: no two entries of the list that scan collects have the same
\* fingerprint.
C18_OnePerFingerprint ==
    \A i, j \in 1..Len(scanner.devices) :
        scanner.devices[i].fingerprint = scanner.devices[j].fingerprint
            => i = j

\* C18: scan has returned peer P twice, under two aliases.
C18_Witness ==
    /\ scanner.pc = "returned"
    /\ scanner.result = "Ok"
    /\ Len(scanner.devices) = 2
    /\ scanner.devices[1].fingerprint = scanner.devices[2].fingerprint
    /\ scanner.devices[1].alias # scanner.devices[2].alias

\* C19: an iteration of scan's loop that starts when 2 seconds have passed, or
\* when a peer has been collected, returns the list.
C19_ReturnsAtDeadlineOrFirstPeer ==
    [][ (/\ scanner.pc = "loop"
         /\ scanner'.sleeps # scanner.sleeps
                \/ Len(scanner'.socket) < Len(scanner.socket)
                \/ scanner'.pc # "loop"
         /\ Elapsed(scanner) >= ScanDuration \/ scanner.devices # <<>>)
        => scanner'.pc = "returned" /\ scanner'.result = "Ok"
      ]_vars

\* C19: more than 2 seconds have passed, no peer has answered and scan is
\* still polling.
C19_Witness ==
    /\ scanner.pc = "loop"
    /\ Elapsed(scanner) > ScanDuration
    /\ scanner.devices = <<>>
    /\ scanner.socket = <<>>

\* The path of an operation in a protocol version, as the protocol lists them.
ExpectedPath(op, version) ==
    CASE op = "PrepareUpload" /\ version = "1.0" -> "v1/send-request"
      [] op = "Upload" /\ version = "1.0" -> "v1/send"
      [] op = "Cancel" /\ version = "1.0" -> "v1/cancel"
      [] op = "PrepareUpload" /\ version = "2.0" -> "v2/prepare-upload"
      [] op = "Upload" /\ version = "2.0" -> "v2/upload"
      [] op = "Cancel" /\ version = "2.0" -> "v2/cancel"

\* C20: for a device of version 1.0 or 2.0 the target of an operation is
\* scheme://ip:port/api/localsend/ followed by the operation's path in that
\* version, and the server mounts these six paths.
C20_TargetOfDevice ==
    /\ (IsSome(routed) /\ Unwrap(routed).device.version \in {"1.0", "2.0"}) =>
          LET r == Unwrap(routed)
              scheme == IF r.device.https THEN "https" ELSE "http"
          IN  r.target = scheme \o "://" \o r.device.ip \o ":"
                             \o ToString(r.device.port) \o "/api/localsend/"
                             \o ExpectedPath(r.op, r.device.version)
    /\ MountedRoutes =
          { "/api/localsend/" \o ExpectedPath(op, version) :
                op \in Ops, version \in {"1.0", "2.0"} }
    /\ Cardinality(MountedRoutes) = 6

\* C20: the target of PrepareUpload on an https v2 device was resolved.
C20_Witness ==
    /\ IsSome(routed)
    /\ Unwrap(routed).target =
          "https://10.0.0.2:53317/api/localsend/v2/prepare-upload"

\* C21: for a device whose version is neither 1.0 nor 2.0 the target of an
\* operation is the one of a 1.0 device: scheme://ip:port/api/localsend/
\* followed by the operation's v1 path.
C21_UnknownVersionIsV1 ==
    (IsSome(routed) /\ Unwrap(routed).device.version \notin {"1.0", "2.0"}) =>
        LET r == Unwrap(routed)
            scheme == IF r.device.https THEN "https" ELSE "http"
        IN  r.target = scheme \o "://" \o r.device.ip \o ":"
                           \o ToString(r.device.port) \o "/api/localsend/"
                           \o ExpectedPath(r.op, "1.0")

\* C21: the upload target of a device of version 2.1 was resolved to the v2
\* route.
C21_Witness ==
    /\ IsSome(routed)
    /\ Unwrap(routed).device.version = "2.1"
    /\ Unwrap(routed).target = "http://10.0.0.2:53317/api/localsend/v2/upload"

\* C22: a FileDto, MulticastDto or RegisterDto that is serialized and read back
\* is the value that was serialized.
C22_RoundTrip ==
    (IsSome(wire) /\ IsSome(Unwrap(wire).input)) =>
        Unwrap(wire).output = Unwrap(Unwrap(wire).input)

\* C22: a FileDto with file_type Image was serialized with fileType "image" and
\* read back with file_type Other.
C22_Witness ==
    /\ IsSome(wire)
    /\ IsSome(Unwrap(wire).input)
    /\ Unwrap(Unwrap(wire).input).kind = "FileDto"
    /\ Unwrap(Unwrap(wire).input).file_type = "Image"
    /\ Unwrap(wire).json.fileType = JString("image")
    /\ Unwrap(wire).output.file_type = "Other"

\* The step is the finalization of the upload in slot u.
UploadFinalizes(u) ==
    /\ req[u].kind = "upload" /\ req[u].pc = "saved"
    /\ req'[u].kind = "closed"

\* C23: when an upload finalizes, its file becomes Finished (saved) or Failed
\* (not saved); the session is removed if every other file of the session is
\* Finished or Failed, and otherwise it stays, with the other files as they
\* were.
C23_RemovedWhenAllTerminal ==
    [][ \A u \in Requests : UploadFinalizes(u) =>
            /\ IsSome(receive_session)
            /\ LET s == Unwrap(receive_session)
                   f == req[u].file_id
                   others == DOMAIN s.files \ {f}
                   done == \A g \in others :
                              s.files[g].status \in {"Finished", "Failed"}
               IN  /\ f \in DOMAIN s.files
                   /\ receive_session' = None <=> done
                   /\ ~done =>
                        LET t == Unwrap(receive_session')
                        IN  /\ t.session_id = s.session_id
                            /\ t.status = s.status
                            /\ t.files[f].status =
                                  IF req[u].save_result = "Ok" THEN "Finished"
                                  ELSE "Failed"
                            /\ \A g \in others : t.files[g] = s.files[g]
      ]_vars

\* C23: an upload has finalized as Failed while the other file of the session
\* is being streamed, and the session is still there.
C23_Witness ==
    /\ IsSome(response) /\ IsSome(receive_session)
    /\ Unwrap(response).kind = "upload"
    /\ Unwrap(response).stage = "final"
    /\ Unwrap(response).result = "SaveFileFailed"
    /\ \E f, g \in DOMAIN Unwrap(receive_session).files :
          /\ Unwrap(receive_session).files[f].status = "Failed"
          /\ Unwrap(receive_session).files[g].status = "Sending"

\* C24: the answer to an upload request is the error of the first check that
\* fails, in the order: session exists (SessionNotExists, 409), peer address is
\* the sender's (InvalidIp, 403), status is Sending (InvalidRecipient, 409),
\* fileId and token given, and sessionId on v2 (InvalidParameters, 400),
\* sessionId is the session's on v2 (InvalidSessionId, 403), the file is known
\* and the token is its unconsumed token (InvalidToken, 403); a rejected upload
\* changes nothing of the session.
C24_FirstFailingCheck ==
    [][ \A u \in Requests : UploadArrives(u) =>
            LET r == Unwrap(response')
                e == r.result
                rs == receive_session
                s == Unwrap(rs)
                ip_ok == r.ip = s.sender_ip
                is_sending == s.status = "Sending"
                given == /\ IsSome(r.file_id) /\ IsSome(r.token)
                         /\ r.v2 => IsSome(r.session_id)
                same_session == r.v2 => r.session_id = Some(s.session_id)
                token_ok == /\ Unwrap(r.file_id) \in DOMAIN s.files
                            /\ IsSome(s.files[Unwrap(r.file_id)].token)
                            /\ s.files[Unwrap(r.file_id)].token = r.token
            IN  /\ e = "SessionNotExists" <=> ~IsSome(rs)
                /\ IsSome(rs) =>
                    /\ e = "InvalidIp" <=> ~ip_ok
                    /\ ip_ok =>
                        /\ e = "InvalidRecipient" <=> ~is_sending
                        /\ is_sending =>
                            /\ e = "InvalidParameters" <=> ~given
                            /\ given =>
                                /\ e = "InvalidSessionId" <=> ~same_session
                                /\ same_session =>
                                    /\ e = "InvalidToken" <=> ~token_ok
                                    /\ e = "Ok" <=> token_ok
                /\ StatusCode(e) =
                      CASE e \in {"SessionNotExists", "InvalidRecipient"} -> 409
                        [] e \in {"InvalidIp", "InvalidSessionId",
                                  "InvalidToken"} -> 403
                        [] e = "InvalidParameters" -> 400
                        [] e = "Ok" -> 200
                /\ e # "Ok" => receive_session' = receive_session
      ]_vars

\* C24: an upload from the sender's address, with an unknown fileId, was
\* answered InvalidRecipient because the session is Waiting.
C24_Witness ==
    /\ IsSome(response) /\ IsSome(receive_session)
    /\ Unwrap(response).kind = "upload"
    /\ Unwrap(response).result = "InvalidRecipient"
    /\ Unwrap(response).ip = Unwrap(receive_session).sender_ip
    /\ Unwrap(response).file_id = None
    /\ Unwrap(receive_session).status = "Waiting"

\* The step is the return of prepare-upload handler p with an answer.
PrepareReturns(p) ==
    /\ req[p].kind \in {"none", "prepare"}
    /\ req'[p].kind = "closed"
    /\ IsSome(response') /\ Unwrap(response').kind = "prepare"

\* The UI's answer is in the channel.
UIAnswered == client_chan # <<>>

\* C25 (as the code has it): SessionBlocked and EmptyFiles create no session and
\* leave the existing one unchanged; SessionDeclined, and NothingSelected for an
\* empty selection, return with the session removed; NothingSelected for a
\* closed UI channel returns with the session still Waiting and a cleanup task
\* scheduled, and that task removes it; a session becomes Sending only in the
\* step in which prepare-upload succeeds.
C25_ErrorsLeaveNoSession ==
    [][ /\ \A p \in Requests : PrepareReturns(p) =>
              LET e == Unwrap(response').result
              IN  /\ e \in {"SessionBlocked", "EmptyFiles"} =>
                        /\ req[p].kind = "none"
                        /\ receive_session' = receive_session
                        /\ uuid' = uuid
                  /\ e = "SessionDeclined" => receive_session' = None
                  /\ (e = "NothingSelected" /\ UIAnswered) =>
                        receive_session' = None
                  /\ (e = "NothingSelected" /\ ~UIAnswered) =>
                        /\ receive_session' = receive_session
                        /\ IsSome(receive_session)
                        /\ Unwrap(receive_session).status = "Waiting"
                        /\ cleanup_tasks' = cleanup_tasks + 1
                  /\ e \in {"Ok", "SessionBlocked", "EmptyFiles",
                            "SessionDeclined", "NothingSelected"}
        /\ (/\ cleanup_tasks' < cleanup_tasks
            /\ IsSome(receive_session)
            /\ Unwrap(receive_session).status = "Waiting") =>
               receive_session' = None
        /\ (/\ IsSome(receive_session')
            /\ Unwrap(receive_session').status = "Sending"
            /\ \/ ~IsSome(receive_session)
               \/ Unwrap(receive_session).status # "Sending") =>
               /\ Answers("prepare", "Ok")
               /\ \E p \in Requests : PrepareReturns(p)
      ]_vars

\* C25 (as stated): a prepare-upload that had created a session and returns an
\* error returns with the session removed.
C25_ErrorRemovesSession ==
    [][ \A p \in Requests :
            (/\ PrepareReturns(p)
             /\ req[p].kind = "prepare"
             /\ Unwrap(response').result # "Ok") =>
                receive_session' = None
      ]_vars

\* C25: prepare-upload has returned NothingSelected because the UI closed its
\* channel; the session it created is still there, Waiting.
C25_Witness ==
    /\ IsSome(response) /\ IsSome(receive_session)
    /\ Unwrap(response).kind = "prepare"
    /\ Unwrap(response).result = "NothingSelected"
    /\ Unwrap(receive_session).status = "Waiting"
    /\ ~ui.tx_open
    /\ cleanup_tasks > 0


\* The upload handlers that are inside save_file.
Saving == {u \in Requests : req[u].kind = "upload"
                            /\ req[u].pc \in {"create", "stream", "send"}}

\* C26: the state lock is not held while a file is written: no handler that is
\* creating or streaming its file holds the lock, so that, while one file
\* streams, an upload of another file of the session is validated and streams
\* too; the handlers inside save_file always write different files, and each
\* one that finalizes records its own file's status and leaves the status of a
\* file still being written at Sending.
C26_LockFreeWhileStreaming ==
    [][/\ \A u \in Saving' : lock' # Some(u)
       /\ \A u, w \in Saving' : u # w => req'[u].file_id # req'[w].file_id
       /\ \A u \in Requests : \A w \in Saving' :
             (UploadFinalizes(u) /\ w # u /\ IsSome(receive_session'))
                => Unwrap(receive_session').files[req[w].file_id].status = "Sending"
      ]_vars

\* Two files of one session stream at the same time.
C26_Witness ==
    \E u, w \in Requests :
        /\ u # w
        /\ req[u].kind = "upload" /\ req[u].pc = "stream"
        /\ req[w].kind = "upload" /\ req[w].pc = "stream"
        /\ req[u].file_id # req[w].file_id
        /\ ~Locked(lock)


\* The spawned worker has not run yet.
WorkerNotStarted == worker.pc = "next" /\ worker.todo = SendOrder

\* C27: the session is installed in the shared state before the worker uploads
\* a file or updates a file's status: as long as upload has not installed the
\* session, the worker it spawned has not run.
C27_InstalledBeforeWorkerActs == send.pc = "install" => WorkerNotStarted

\* C27: the worker has gone through all the files, status updates included,
\* and the session is not yet in the shared state.
C27_Witness ==
    /\ send.pc = "install"
    /\ send_session = None
    /\ worker.pc = "finished"


\* The step is a call of cancel_by_sender on the session taken at Ctrl-C.
CancelBySender ==
    /\ send.ctrlc /\ ~send'.ctrlc
    /\ IsSome(send_session)

\* The step is a call of cancel_by_receiver on the session a cancel request took.
CancelByReceiver ==
    /\ \E c \in Requests : CancelArrives(c)
    /\ IsSome(send_session) /\ send_session' = None

\* C28: cancel by the sender posts the cancel request and aborts the worker
\* whatever became of the request; cancel by the receiver posts nothing and
\* aborts the worker. After either call the session's worker is not running.
C28_CancelAbortsWorker ==
    [][ /\ CancelBySender =>
              /\ IsSome(sent') /\ Unwrap(sent').op = "Cancel"
              /\ ~Running(worker')
        /\ CancelByReceiver =>
              /\ sent' = sent
              /\ ~Running(worker')
      ]_vars

\* C28: the cancel request of Ctrl-C was the last request sent, the Ctrl-C task
\* has ended without exiting the process, and the worker is still streaming.
C28_Witness ==
    /\ IsSome(sent) /\ Unwrap(sent).op = "Cancel"
    /\ ~send.ctrlc /\ send.pc = "join"
    /\ send_session = None
    /\ worker.pc = "stream"


\* The step is a return of SendSession::upload.
UploadReturns == send.pc \in {"prepare", "take"} /\ send'.pc = "idle"

\* The step is the end of join_handle.await.
Joins == send.pc = "join" /\ send'.pc = "take"

\* C29: after every return of upload the shared state has no SendSession. What
\* upload returns follows the way the worker ended: Ok when it went through
\* all its files, Cancelled when it was aborted, which only a cancel (by the
\* sender or by the receiver) does, and Aborted when it panicked.
C29_TakenAtReturn ==
    [][ /\ UploadReturns => send_session' = None
        /\ Joins =>
              /\ worker.pc = "finished" =>
                    /\ send'.result = "Ok"
                    /\ worker.todo = <<>>
              /\ worker.pc = "aborted" => send'.result = "Cancelled"
              /\ worker.pc = "panicked" => send'.result = "Aborted"
        /\ (worker.pc # "aborted" /\ worker'.pc = "aborted") =>
              CancelBySender \/ CancelByReceiver
        /\ (send.pc = "take" /\ send'.pc = "idle") => send'.result = send.result
      ]_vars

\* C29: upload has returned Aborted (its worker panicked) and left no session.
C29_Witness ==
    /\ send.pc = "idle"
    /\ send.result = "Aborted"
    /\ send_session = None


\* The step is the worker taking up a file.
WorkerPicks == worker.pc = "next" /\ worker'.file # ""

\* The step is the worker's status update after upload_file.
WorkerUpdates == worker.pc = "finish" /\ worker'.pc = "next"

\* The step is the end of the worker task other than by an abort.
WorkerEnds == Running(worker) /\ worker'.pc \in {"finished", "panicked"}

\* C30: the worker takes the files that are not Skipped in insertion order, one
\* at a time; after each upload the file is marked in the session, Finished
\* for a 200 and Failed for anything else; and the worker ends only when no
\* file is left, whatever became of the files before.
C30_InOrderEachMarked ==
    [][ /\ WorkerPicks =>
              /\ worker.file = ""
              /\ worker'.file = Head(SkipSkipped(worker.todo, worker.files))
        /\ WorkerUpdates =>
              /\ IsSome(send_session')
              /\ Unwrap(send_session').files[worker.file].status =
                    IF worker.ok THEN "Finished" ELSE "Failed"
        /\ WorkerEnds =>
              /\ worker'.pc = "finished"
              /\ SkipSkipped(worker.todo, worker.files) = <<>>
      ]_vars

\* C30: the worker has ended in a panic at the inline text G, which has no
\* preview; G is still Sending in the installed session.
C30_Witness ==
    /\ worker.pc = "panicked"
    /\ IsSome(send_session)
    /\ Unwrap(send_session).files["G"].status = "Sending"


\* The step is upload going on after the prepare response.
ResponseAccepted == send.pc = "prepare" /\ send'.pc = "install"

\* The step is upload returning NothingSelected for the prepare response.
ResponseEmpty ==
    /\ send.pc = "prepare" /\ send'.pc = "idle"
    /\ send'.result = "NothingSelected"

\* C31: after a prepare response with a token map that is not empty, the files
\* in the map are Sending with the token the map gives them and the others are
\* Skipped without token, in the session and in the copy the worker gets; with
\* an empty map upload returns NothingSelected, no session is installed and no
\* worker is started.
C31_TokensUpdated ==
    [][ /\ \A T \in (SUBSET Files) \ {{}} : \A n \in 1..MaxSessions :
              LET token == [f \in T |-> RemoteToken(n, f)]
                  files == UpdateToken(NewSendSession(n).files, token)
              IN  \A f \in Files :
                     IF f \in T
                     THEN files[f] = [status |-> "Sending",
                                      token |-> Some(token[f])]
                     ELSE files[f] = [status |-> "Skipped", token |-> None]
        /\ ResponseAccepted =>
              LET files == Unwrap(send'.session).files
              IN  /\ \E f \in Files : files[f].status = "Sending"
                  /\ \A f \in Files :
                        \/ files[f] = [status |-> "Sending",
                                       token |-> Some(RemoteToken(send.n, f))]
                        \/ files[f] = [status |-> "Skipped", token |-> None]
                  /\ worker'.files = files
        /\ ResponseEmpty =>
              /\ send_session' = None /\ send'.session = None
              /\ worker'.pc = "none"
      ]_vars

\* C31: one file was accepted and the other was not.
C31_Witness ==
    /\ send.pc = "install"
    /\ \E f, g \in Files :
          /\ Unwrap(send.session).files[f].status = "Sending"
          /\ Unwrap(send.session).files[g].status = "Skipped"


\* C32: in a ReceiveSession a file has a token if and only if its status is
\* Queue: the token is issued with status Queue, removed when an upload is
\* accepted (Sending), and never comes back (Finished, Failed).
C32_TokenIffQueue ==
    IsSome(receive_session) =>
        LET files == Unwrap(receive_session).files
        IN  \A f \in DOMAIN files :
               /\ files[f].status \in {"Queue", "Sending", "Finished", "Failed"}
               /\ IsSome(files[f].token) <=> files[f].status = "Queue"

\* C32: a session with a file still expected, with its token, next to a file
\* that failed and has none.
C32_Witness ==
    /\ IsSome(receive_session)
    /\ \E f, g \in DOMAIN Unwrap(receive_session).files :
          /\ Unwrap(receive_session).files[f].status = "Queue"
          /\ IsSome(Unwrap(receive_session).files[f].token)
          /\ Unwrap(receive_session).files[g].status = "Failed"
          /\ ~IsSome(Unwrap(receive_session).files[g].token)


\* The events of one file in a sequence of events are in order of position.
Ordered(events, strictly) ==
    \A i, j \in 1..Len(events) :
        (i < j /\ events[i].file_id = events[j].file_id) =>
            IF strictly THEN events[i].position < events[j].position
            ELSE events[i].position <= events[j].position

\* C33: the progress events of a file come in order of position. On the
\* receiver the positions in the channel grow strictly, every event has
\* finish = (position >= size), the events of a file being saved are at most
\* at the handler's count of the bytes read, the event a handler is about to
\* send is beyond all of them, and no two handlers save the same file at
\* once. On the sender the positions of a file's events never go down.
C33_ProgressInOrder ==
    /\ Ordered(progress_chan, TRUE)
    /\ \A i \in 1..Len(progress_chan) :
          /\ progress_chan[i].position >= 1
          /\ progress_chan[i].finish =
                (progress_chan[i].position >= DeclaredSize(progress_chan[i].file_id))
    /\ \A u \in Saving : \A i \in 1..Len(progress_chan) :
          progress_chan[i].file_id = req[u].file_id =>
              IF req[u].pc = "send"
              THEN progress_chan[i].position < req[u].position
              ELSE progress_chan[i].position <= req[u].position
    /\ \A u, w \in Saving : u # w => req[u].file_id # req[w].file_id
    /\ Ordered(emitted, FALSE)

\* C33: the channel holds two events of file G, the second with finish set,
\* while the other file is being saved too.
C33_Witness ==
    /\ Len(progress_chan) = 2
    /\ progress_chan[1] = [file_id |-> "G", position |-> 1, finish |-> FALSE]
    /\ progress_chan[2].file_id = "G" /\ progress_chan[2].finish
    /\ \E u \in Requests : req[u].pc \in {"stream", "send"}
                           /\ req[u].file_id = "F"


\* C34: progress delivery on the receiver never holds up an upload: a handler
\* that has an event to send always finds room in the channel (or drops the
\* event), whatever the UI has taken so far.
C34_NeverWaits ==
    \A u \in Requests :
        (req[u].kind = "upload" /\ req[u].pc = "send") =>
            Len(progress_chan) < MaxProgress

\* C34: the channel is full and both uploads of the session wait in
\* progress_tx.send for the UI to take an event.
C34_Witness ==
    /\ Len(progress_chan) = MaxProgress
    /\ \E u, w \in Requests :
          /\ u # w
          /\ req[u].kind = "upload" /\ req[u].pc = "send"
          /\ req[w].kind = "upload" /\ req[w].pc = "send"


\* The step is scan taking a datagram that is no RegisterDto from the socket.
ReceivesUnparsable ==
    /\ scanner.pc = "loop"
    /\ scanner.socket # <<>> /\ ~Head(scanner.socket).valid
    /\ scanner'.socket = Tail(scanner.socket)

\* C35: a datagram that fails to parse is skipped: scan goes on with the
\* devices it has collected, and does not return an error for it.
C35_ParseErrorSkipped ==
    [][ ReceivesUnparsable =>
           /\ scanner'.pc = "loop"
           /\ scanner'.devices = scanner.devices
           /\ scanner'.result = ""
      ]_vars

\* C35: scan has returned an error after it had collected a device.
C35_Witness ==
    /\ scanner.pc = "returned"
    /\ scanner.result = "Err"
    /\ scanner.devices # <<>>


\* The upload handlers between the consumption of the token and finalization.
Accepted == {u \in Requests : req[u].kind = "upload"
                              /\ req[u].pc \in {"create", "stream", "send", "saved"}}

\* C36: from the consumption of a file's token to the finalization of that
\* upload the ReceiveSession stays: it is the session that issued the token,
\* it has the file's entry, in status Sending, and finalization answers Ok or
\* SaveFileFailed, never Cancelled (no session) or InvalidToken (no entry).
C36_SessionKeptForUpload ==
    \A u \in Accepted :
        /\ IsSome(receive_session)
        /\ req[u].token = TokenOf(Unwrap(receive_session).session_id, req[u].file_id)
        /\ req[u].file_id \in DOMAIN Unwrap(receive_session).files
        /\ Unwrap(receive_session).files[req[u].file_id].status = "Sending"
        /\ UploadFinalize(receive_session, req[u].file_id,
                          req[u].save_result).result \in {"Ok", "SaveFileFailed"}

\* C36: an upload is about to finalize after the other file of the session
\* was finalized, and the session is still there.
C36_Witness ==
    /\ IsSome(receive_session)
    /\ \E u \in Requests, g \in DOMAIN Unwrap(receive_session).files :
          /\ req[u].kind = "upload" /\ req[u].pc = "saved"
          /\ g # req[u].file_id
          /\ Terminal(Unwrap(receive_session).files[g].status)


\* Handler p of a prepare-upload waits for the UI's reply.
AwaitsReply(p) == req[p].kind = "prepare" /\ req[p].pc = "recv"

\* The send side is at a point where it takes the lock: the install, the
\* worker's status update, or the take before upload returns.
SendWantsLock == send.pc \in {"install", "take"} \/ worker.pc = "finish"

\* C37: a prepare-upload that waits for the UI's reply does not stand in the
\* way of the process's own transfer: it does not hold the lock that the
\* worker and upload need to go on.
C37_PrepareNeverBlocksSend ==
    \A p \in Requests : (AwaitsReply(p) /\ SendWantsLock) => lock # Some(p)

\* C37: the request is in server_rx, which nothing reads; its handler holds
\* the lock; the worker has the response for its file and upload waits for
\* the worker.
C37_Witness ==
    /\ \E p \in Requests : AwaitsReply(p) /\ lock = Some(p)
    /\ server_chan # <<>> /\ client_chan = <<>>
    /\ worker.pc = "finish" /\ send.pc = "join"
    /\ IsSome(send_session)

\* C38: a cancel request on the v1 route takes whatever SendSession is
\* installed, whether or not the session has a remote_session_id and whatever
\* sessionId the request carries (none, the session's, or another one): the
\* session is gone, no worker is left running and the answer is 200.
C38_V1CancelTakesAnySession ==
    [][ \A c \in Requests :
            (/\ CancelArrives(c)
             /\ ~Unwrap(response').v2
             /\ IsSome(send_session)) =>
                /\ Unwrap(response').result = "Ok"
                /\ StatusCode(Unwrap(response').result) = 200
                /\ send_session' = None
                /\ ~Running(worker')
      ]_vars

\* C38: the session of a v2 peer (its upload request carried the
\* remote_session_id) was taken and its worker aborted by a v1 cancel with
\* another sessionId.
C38_Witness ==
    /\ IsSome(response)
    /\ Unwrap(response).kind = "cancel"
    /\ ~Unwrap(response).v2
    /\ Unwrap(response).result = "Ok"
    /\ send.version = "2.0"
    /\ IsSome(sent)
    /\ Unwrap(sent).session_id = Some(RemoteSessionId(send.n))
    /\ IsSome(Unwrap(response).session_id)
    /\ Unwrap(response).session_id # Unwrap(sent).session_id
    /\ send.pc = "join"
    /\ send_session = None
    /\ worker.pc = "aborted"

\* The step is the run of a cleanup task spawned by a guard.
CleanupRuns == cleanup_tasks' = cleanup_tasks - 1

\* A prepare-upload handler is still between its gate and its return.
Handshaking == \E p \in Requests : req[p].kind = "prepare"

\* C39: a cleanup task removes the ReceiveSession only if it finds it in status
\* Waiting, and then no prepare-upload handler is still at work, so the removed
\* session's handshake has ended without success; a session in another status
\* (Sending), whichever request installed it, and an absent one are left as
\* they are.
C39_GuardRemovesOnlyWaiting ==
    [][ CleanupRuns =>
            IF IsSome(receive_session) /\ Unwrap(receive_session).status = "Waiting"
            THEN receive_session' = None /\ ~Handshaking
            ELSE receive_session' = receive_session
      ]_vars

\* C39: a second session was installed and its handshake succeeded, and every
\* cleanup task spawned so far, its own and the earlier request's, has run: the
\* session is there, in status Sending.
C39_Witness ==
    /\ ~quick_save
    /\ IsSome(receive_session)
    /\ Unwrap(receive_session).status = "Sending"
    /\ Unwrap(receive_session).session_id > 0
    /\ cleanup_tasks = 0
    /\ ~Handshaking

\* C40: no prepare-upload is answered InvalidServerState. While a handler is
\* between its gate and its return it holds the lock, and receive_session is
\* the session it installed, as it installed it: its id, status Waiting, no
\* file, no progress_tx.
C40_NoInvalidServerState ==
    /\ (IsSome(response) /\ Unwrap(response).kind = "prepare") =>
            Unwrap(response).result # "InvalidServerState"
    /\ \A p \in Requests : req[p].kind = "prepare" =>
            /\ lock = Some(p)
            /\ \E ip \in IPs :
                   receive_session =
                       Some(NewSession(uuid - 1 - Cardinality(Files), ip))

\* C40: a handler resumed after the UI's reply and answered 200 although the
\* cleanup task of an earlier request was waiting for the lock all along.
C40_Witness ==
    /\ ~quick_save
    /\ IsSome(response)
    /\ Unwrap(response).kind = "prepare"
    /\ Unwrap(response).result = "Ok"
    /\ cleanup_tasks >= 2
    /\ IsSome(receive_session)
    /\ Unwrap(receive_session).status = "Sending"

====
